---- MODULE Spec2Model ----
(***************************************************************************)
(* A model of aioroot: the binary structure decoders of structure.py and   *)
(* the ROOTFile orchestrator of rootfile.py.                               *)
(*                                                                         *)
(* Byte strings (Python bytes) are sequences of numbers 0..255.  A record's *)
(* field dictionary (ROOTObject.data) is a function from field names to    *)
(* values.  A decode's outcome is [err, ret, data]: err is "none" or the   *)
(* kind of the exception raised, ret is <<offset>> for a returned offset   *)
(* and << >> when the call raised, data is the dictionary as the call left *)
(* it.                                                                     *)
(***************************************************************************)
EXTENDS Integers, Sequences, FiniteSets, TLC

VARIABLES
    buffer,      \* decoder harness: the bytes handed to a decoder
    start,       \* decoder harness: the offset handed to a decoder
    res,         \* decoder harness: the outcome of the decode, NotRun before
    query,       \* decoder harness: the last name looked up in the key list
    answer,      \* decoder harness: the outcome of that lookup
    file,        \* ROOTFile: the bytes of the remote file
    servelimit,  \* ROOTFile: the most bytes the byte source returns per read
    step,        \* ROOTFile._open_readstep
    pc,          \* ROOTFile: position in open / __getitem__
    headbytes,   \* ROOTFile.open: the growing head buffer
    offset,      \* ROOTFile.open: the cursor
    fileheader,  \* ROOTFile.fileheader.data
    rootkey,     \* ROOTFile.rootkey.data
    rootdir,     \* ROOTFile.rootdir.data
    keyslist,    \* ROOTFile.keyslist (data, _keys, _lastcycle, parsed)
    err,         \* ROOTFile: the exception that ended the operation, "none"
    reads,       \* ROOTFile: the byte-range reads issued, in order
    warned,      \* ROOTFile.open: the warnings emitted, in order
    more,        \* ROOTFile.open: the size of the growth read about to be issued
    keysbytes,   \* ROOTFile.open: the bytes read for the key list
    request,     \* ROOTFile.__getitem__: the name asked for
    objkey,      \* ROOTFile.__getitem__: the key the name resolved to
    objbytes,    \* ROOTFile.__getitem__: the payload bytes
    obj,         \* ROOTFile.__getitem__: the outcome of the fetch
    job,         \* the worker pool: the function submitted and its result
    futures,     \* XRootDFile.read: the future of each read issued
    waiters,     \* XRootDFile.read: the task awaiting each future
    calls,       \* XRootDFile._handle: the transport's callback for each read
    ready,       \* the event loop: the callbacks handed to call_soon_threadsafe
    servers,     \* XRootDFile._servers: the number of entries appended
    loopfails,   \* the event loop: the callbacks that raised
    threadpool,  \* ROOTFile._threadpool: "None", "own" or "given"
    fetches      \* concurrent __getitem__ tasks: position, key, bytes, pool job

vars == <<buffer, start, res, query, answer, file, servelimit, step, pc,
          headbytes, offset, fileheader, rootkey, rootdir, keyslist, err,
          reads, warned, more, keysbytes, request, objkey, objbytes, obj, job,
          futures, waiters, calls, ready, servers, loopfails, threadpool, fetches>>

harnessVars == <<buffer, start, res, query, answer>>
fileVars == <<file, servelimit, step, pc, headbytes, offset, fileheader,
              rootkey, rootdir, keyslist, err, reads, warned, more, keysbytes,
              request, objkey, objbytes, obj, job>>
xrdVars == <<futures, waiters, calls, ready, servers, loopfails>>
poolVars == <<threadpool, fetches>>
asyncVars == <<xrdVars, poolVars>>

-----------------------------------------------------------------------------
(* Python's bytes, slices and dictionaries *)

EmptyDict == [k \in {} |-> 0]

\* dict.update(new) on old
Update(old, new) == new @@ old

Min(a, b) == IF a < b THEN a ELSE b
Max(a, b) == IF a > b THEN a ELSE b

\* buffer[a:b], with Python's negative indices and clamping
Slice(buf, a, b) ==
    LET n == Len(buf)
        norm(i) == LET j == IF i < 0 THEN i + n ELSE i
                   IN IF j < 0 THEN 0 ELSE IF j > n THEN n ELSE j
        lo == norm(a)
        hi == norm(b)
    IN IF hi <= lo THEN << >> ELSE SubSeq(buf, lo + 1, hi)

\* bytes(n): n zero bytes
Zeros(n) == [i \in 1..n |-> 0]

\* b'%d' % n
RECURSIVE Digits(_)
Digits(n) == IF n < 10 THEN <<48 + n>> ELSE Digits(n \div 10) \o <<48 + (n % 10)>>
FormatInt(n) == IF n < 0 THEN <<45>> \o Digits(0 - n) ELSE Digits(n)

-----------------------------------------------------------------------------
(* struct: big-endian fixed layouts *)

\* one item of a format string: a code and, for "s", a byte count
F(code) == [c |-> code, n |-> 1]
S(count) == [c |-> "s", n |-> count]

ItemSize(item) ==
    CASE item.c = "s" -> item.n
      [] item.c = "B" -> 1
      [] item.c \in {"h", "H"} -> 2
      [] item.c \in {"i", "I"} -> 4
      [] item.c \in {"q", "Q", "d"} -> 8

RECURSIVE calcsize(_)
calcsize(fmt) == IF fmt = << >> THEN 0 ELSE ItemSize(Head(fmt)) + calcsize(Tail(fmt))

RECURSIVE FoldBE(_, _)
FoldBE(bytes, acc) ==
    IF bytes = << >> THEN acc ELSE FoldBE(Tail(bytes), acc * 256 + Head(bytes))

\* the integer a big-endian field holds (two's complement when signed)
IntBE(bytes, signed) ==
    LET b0 == Head(bytes)
    IN FoldBE(Tail(bytes), IF signed /\ b0 >= 128 THEN b0 - 256 ELSE b0)

\* "s" fields stay bytes; "Q" and "d" fields are kept as their 8 raw bytes
\* (equal values have equal bytes), every other field is an integer
ItemValue(item, bytes) ==
    IF item.c \in {"s", "Q", "d"} THEN bytes
    ELSE IntBE(bytes, item.c \in {"h", "i", "q"})

RECURSIVE UnpackItems(_, _)
UnpackItems(fmt, bytes) ==
    IF fmt = << >> THEN << >>
    ELSE LET sz == ItemSize(Head(fmt))
         IN <<ItemValue(Head(fmt), SubSeq(bytes, 1, sz))>>
            \o UnpackItems(Tail(fmt), SubSeq(bytes, sz + 1, Len(bytes)))

\* struct.Struct(fmt).unpack_from(buffer, offset): the values, or the
\* struct.error marker when the buffer does not hold the whole layout
StructError == "struct.error"
struct_unpack_from(fmt, buf, off) ==
    LET n == Len(buf)
        size == calcsize(fmt)
        at == IF off < 0 THEN off + n ELSE off
    IN IF at < 0 \/ n - at < size THEN [ok |-> FALSE, vals |-> << >>]
       ELSE [ok |-> TRUE, vals |-> UnpackItems(fmt, SubSeq(buf, at + 1, at + size))]

\* NamedStruct(sformat, sfields): sfields a list of names, or one name (single)
NamedStruct(fmt, fields, single) == [fmt |-> fmt, fields |-> fields, single |-> single]

\* NamedStruct.unpack_from: [ok, val, offset]
unpack_from(ns, buf, off) ==
    LET Named(ok, vals) ==
            IF ~ok THEN [ok |-> FALSE, val |-> EmptyDict, offset |-> off]
            ELSE [ok |-> TRUE,
                  val |-> IF ns.single THEN vals[1]
                          ELSE [k \in {ns.fields[i] : i \in 1..Min(Len(ns.fields), Len(vals))}
                                  |-> vals[CHOOSE i \in 1..Len(ns.fields) : ns.fields[i] = k]],
                  offset |-> off + calcsize(ns.fmt)]
        Unpacked(got) == Named(got.ok, got.vals)
    IN Unpacked(struct_unpack_from(ns.fmt, buf, off))

\* struct.pack of one field and of a layout (the fixtures are written with it)
RECURSIVE PackBE(_, _)
PackBE(v, n) == IF n = 0 THEN << >> ELSE PackBE(v \div 256, n - 1) \o <<v % 256>>

PackItem(item, v) ==
    IF item.c \in {"s", "Q", "d"} THEN v \o Zeros(ItemSize(item) - Len(v))
    ELSE PackBE(v, ItemSize(item))

RECURSIVE pack(_, _)
pack(fmt, vals) ==
    IF fmt = << >> THEN << >>
    ELSE PackItem(Head(fmt), Head(vals)) \o pack(Tail(fmt), Tail(vals))

\* outcomes of a decode
Return(off, data) == [err |-> "none", ret |-> <<off>>, data |-> data]
Raise(kind, data) == [err |-> kind, ret |-> << >>, data |-> data]

\* an outcome with the name of the operation that produced it; no operation yet
Ran(op, outcome) == [op |-> op] @@ outcome
NotRun == [op |-> "none", err |-> "none", ret |-> << >>, data |-> EmptyDict]
NoAnswer == [op |-> "none", err |-> "none", key |-> EmptyDict]
NoJob == [state |-> "none"]

-----------------------------------------------------------------------------
(* TString *)

TString_nBytes == NamedStruct(<<F("B")>>, <<"nBytes">>, TRUE)
TString_nBytesLong == NamedStruct(<<F("i")>>, <<"nBytes">>, TRUE)

\* TString.readstring: [ok, string, offset]
readstring(buf, off) ==
    LET String(n) ==
            IF ~n.ok THEN [ok |-> FALSE, string |-> << >>, offset |-> off]
            ELSE [ok |-> TRUE,
                  string |-> Slice(buf, n.offset, n.offset + n.val),
                  offset |-> n.offset + n.val]
        Length(short) ==
            IF short.ok /\ short.val = 255
            THEN String(unpack_from(TString_nBytesLong, buf, short.offset))
            ELSE String(short)
    IN Length(unpack_from(TString_nBytes, buf, off))

-----------------------------------------------------------------------------
(* TFile: the file header *)

RootMagic == <<114, 111, 111, 116>>

BigFileVersion == 1000000

TFile_header1 == NamedStruct(<<S(4), F("i"), F("i")>>,
                             <<"magic", "fVersion", "fBEGIN">>, FALSE)
TFile_header2_fields == <<"fEND", "fSeekFree", "fNbytesFree", "nfree", "fNbytesName",
                          "fUnits", "fCompress", "fSeekInfo", "fNbytesInfo", "fUUID">>
TFile_header2_small ==
    NamedStruct(<<F("i"), F("i"), F("i"), F("i"), F("i"), F("B"), F("i"), F("i"), F("i"), S(18)>>,
                TFile_header2_fields, FALSE)
TFile_header2_big ==
    NamedStruct(<<F("q"), F("q"), F("i"), F("i"), F("i"), F("B"), F("i"), F("q"), F("i"), S(18)>>,
                TFile_header2_fields, FALSE)

TFile_minsize == calcsize(TFile_header1.fmt)

\* a magic test that looks at the first three bytes only
WrongMagic_ThreeBytes(magic) == SubSeq(magic, 1, 3) # SubSeq(RootMagic, 1, 3)

\* the magic test of TFile.read
WrongMagic(magic) == magic # RootMagic

\* a selection that still takes the 32-bit layout at the threshold itself
TFile_header2_AtThreshold(version) ==
    IF version <= BigFileVersion THEN TFile_header2_small ELSE TFile_header2_big

\* the second header TFile.read unpacks for a version
TFile_header2(version) ==
    IF version < BigFileVersion THEN TFile_header2_small ELSE TFile_header2_big

\* TFile.read(self, buffer, offset)
TFile_read(self, buf, off) ==
    LET Header2(data1, h2) ==
            IF ~h2.ok THEN Raise(StructError, data1)
            ELSE Return(data1["fBEGIN"], Update(data1, h2.val))
        Magic(h1, data1) ==
            IF WrongMagic(data1["magic"]) THEN Raise("Wrong magic", data1)
            ELSE Header2(data1, unpack_from(TFile_header2(data1["fVersion"]), buf, h1.offset))
        Header1(h1) ==
            IF ~h1.ok THEN Raise(StructError, self) ELSE Magic(h1, Update(self, h1.val))
    IN Header1(unpack_from(TFile_header1, buf, off))

-----------------------------------------------------------------------------
(* TKey: a key record *)

BigKeyVersion == 1000

TKey_header1 == NamedStruct(<<F("i"), F("h"), F("i"), F("I"), F("h"), F("h")>>,
                            <<"fNbytes", "fVersion", "fObjlen", "fDatime", "fKeylen", "fCycle">>,
                            FALSE)
TKey_header2_small == NamedStruct(<<F("i"), F("i")>>, <<"fSeekKey", "fSeekPdir">>, FALSE)
TKey_header2_big == NamedStruct(<<F("q"), F("q")>>, <<"fSeekKey", "fSeekPdir">>, FALSE)

TKey_minsize == calcsize(TKey_header1.fmt)

\* a framing test that only catches a key shorter than declared
KeyFramingBroken_FewerOnly(startoff, keylen, reached) == startoff + keylen > reached

\* the framing test of TKey.read
KeyFramingBroken(startoff, keylen, reached) == startoff + keylen # reached

KeyFramingError == "Read fewer bytes from TKey"

\* TKey.read(self, buffer, offset)
TKey_read(self, buf, off) ==
    LET Framing(reached, data5) ==
            IF KeyFramingBroken(off, data5["fKeylen"], reached)
            THEN Raise(KeyFramingError, data5)
            ELSE Return(reached, data5)
        Title(data4, title) ==
            IF ~title.ok THEN Raise(StructError, data4)
            ELSE Framing(title.offset, Update(data4, [fTitle |-> title.string]))
        Name(data3, name) ==
            IF ~name.ok THEN Raise(StructError, data3)
            ELSE Title(Update(data3, [fName |-> name.string]), readstring(buf, name.offset))
        ClassName(data2, cls) ==
            IF ~cls.ok THEN Raise(StructError, data2)
            ELSE Name(Update(data2, [fClassName |-> cls.string]), readstring(buf, cls.offset))
        Header2(data1, h2) ==
            IF ~h2.ok THEN Raise(StructError, data1)
            ELSE ClassName(Update(data1, h2.val), readstring(buf, h2.offset))
        Version(h1, data1) ==
            Header2(data1, unpack_from(IF data1["fVersion"] < BigKeyVersion
                                       THEN TKey_header2_small ELSE TKey_header2_big,
                                       buf, h1.offset))
        Header1(h1) ==
            IF ~h1.ok THEN Raise(StructError, self) ELSE Version(h1, Update(self, h1.val))
    IN Header1(unpack_from(TKey_header1, buf, off))

\* TKey.size
TKey_size(data) == data["fKeylen"]

\* TKey.compressed
TKey_compressed(data) == data["fNbytes"] < data["fKeylen"] + data["fObjlen"]

\* TKey.namecycle: b'%s;%d' % (fName, fCycle)
namecycle(name, cycle) == name \o <<59>> \o FormatInt(cycle)
TKey_namecycle(data) == namecycle(data["fName"], data["fCycle"])

-----------------------------------------------------------------------------
(* TKeyList: the key directory *)

TKeyList_nKeys == NamedStruct(<<F("i")>>, <<"nKeys">>, TRUE)

\* dict.get(k, default)
Get(d, k, default) == IF k \in DOMAIN d THEN d[k] ELSE default

\* TKeyList.__init__: headkey is the head key's data, keys is _keys,
\* lastcycle is _lastcycle, data holds nKeys and trailings; parsed lists the
\* key records read by the loop, in order (a history of the TKey() objects
\* the loop made)
TKeyList_init ==
    [headkey |-> EmptyDict, keys |-> EmptyDict, lastcycle |-> EmptyDict,
     data |-> EmptyDict, parsed |-> << >>]

\* len(self._keys)
TKeyList_len(self) == Cardinality(DOMAIN self.keys)

\* the loop condition of TKeyList.read
KeyLoopContinues(off, end, self, nkeys) == off < end /\ TKeyList_len(self) < nkeys

\* the test that makes a key the latest cycle of its name
NewerCycle(lastcycle, name, cycle) == Get(lastcycle, name, 0 - 1) < cycle

\* one pass of the loop body, the key already read
KeyLoopBody(self, key) ==
    [self EXCEPT
        !.keys = (TKey_namecycle(key) :> key) @@ @,
        !.lastcycle = IF NewerCycle(@, key["fName"], key["fCycle"])
                      THEN (key["fName"] :> key["fCycle"]) @@ @ ELSE @,
        !.parsed = Append(@, key)]

\* the while loop of TKeyList.read: [err, offset, self]
RECURSIVE KeyLoop(_, _, _, _, _)
KeyLoop(buf, end, nkeys, off, self) ==
    LET Pass(key) ==
            IF key.err # "none" THEN [err |-> key.err, offset |-> off, self |-> self]
            ELSE KeyLoop(buf, end, nkeys, key.ret[1], KeyLoopBody(self, key.data))
    IN IF KeyLoopContinues(off, end, self, nkeys)
       THEN Pass(TKey_read(EmptyDict, buf, off))
       ELSE [err |-> "none", offset |-> off, self |-> self]

\* the key-count test after the loop
KeyCountWrong(self, nkeys) == TKeyList_len(self) # nkeys

KeyCountError == "Expected to read %d keys"

\* TKeyList.read(self, buffer, offset)
TKeyList_read(self, buf, off) ==
    LET Trailing(end, nkeys, lp) ==
            IF lp.err # "none" THEN Raise(lp.err, lp.self)
            ELSE IF KeyCountWrong(lp.self, nkeys) THEN Raise(KeyCountError, lp.self)
            ELSE IF lp.offset < end
                 THEN Return(end, [lp.self EXCEPT
                                     !.data = Update(@, [trailings |-> Slice(buf, lp.offset, end)])])
            ELSE Return(lp.offset, lp.self)
        Keys(self1, end, nk) ==
            IF ~nk.ok THEN Raise(StructError, self1)
            ELSE Trailing(end, nk.val,
                          KeyLoop(buf, end, nk.val, nk.offset,
                                  [self1 EXCEPT !.data = Update(@, [nKeys |-> nk.val])]))
        HeadKey(hk, self1) ==
            IF hk.err # "none" THEN Raise(hk.err, self1)
            ELSE Keys(self1, hk.ret[1] + hk.data["fObjlen"],
                      unpack_from(TKeyList_nKeys, buf, hk.ret[1]))
        Head_(hk) == HeadKey(hk, [self EXCEPT !.headkey = hk.data])
    IN Head_(TKey_read(self.headkey, buf, off))

\* a lookup that answers an unknown name with some key of the list
TKeyList_getitem_AnyKey(self, keyname) ==
    IF keyname \in DOMAIN self.keys THEN [err |-> "none", key |-> self.keys[keyname]]
    ELSE IF DOMAIN self.keys = {} THEN [err |-> "KeyError", key |-> EmptyDict]
    ELSE [err |-> "none", key |-> self.keys[CHOOSE k \in DOMAIN self.keys : TRUE]]

\* TKeyList.__getitem__(keyname): [err, key]
TKeyList_getitem(self, keyname) ==
    IF keyname \notin DOMAIN self.keys
    THEN IF keyname \notin DOMAIN self.lastcycle
         THEN [err |-> "KeyError", key |-> EmptyDict]
         ELSE LET full == namecycle(keyname, self.lastcycle[keyname])
              IN IF full \in DOMAIN self.keys
                 THEN [err |-> "none", key |-> self.keys[full]]
                 ELSE [err |-> "KeyError", key |-> EmptyDict]
    ELSE [err |-> "none", key |-> self.keys[keyname]]

-----------------------------------------------------------------------------
(* TDirectory: the directory record *)

BigDirectoryVersion == 1000

TDirectory_header1 ==
    NamedStruct(<<F("h"), F("I"), F("I"), F("i"), F("i")>>,
                <<"fVersion", "fDatimeC", "fDatimeM", "fNbytesKeys", "fNbytesName">>, FALSE)
TDirectory_header2_small ==
    NamedStruct(<<F("i"), F("i"), F("i")>>, <<"fSeekDir", "fSeekParent", "fSeekKeys">>, FALSE)
TDirectory_header2_big ==
    NamedStruct(<<F("q"), F("q"), F("q")>>, <<"fSeekDir", "fSeekParent", "fSeekKeys">>, FALSE)

\* NameTitle.read(self, buffer, offset)
NameTitle_read(self, buf, off) ==
    LET Title(data1, title) ==
            IF ~title.ok THEN Raise(StructError, data1)
            ELSE Return(title.offset, Update(data1, [fTitle |-> title.string]))
        Name(name) ==
            IF ~name.ok THEN Raise(StructError, self)
            ELSE Title(Update(self, [fName |-> name.string]), readstring(buf, name.offset))
    IN Name(readstring(buf, off))

\* TDirectory.read(self, buffer, offset)
TDirectory_read(self, buf, off) ==
    LET Header2(data1, h2) ==
            IF ~h2.ok THEN Raise(StructError, data1)
            ELSE Return(h2.offset, Update(data1, h2.val))
        Version(h1, data1) ==
            Header2(data1, unpack_from(IF data1["fVersion"] < BigDirectoryVersion
                                       THEN TDirectory_header2_small
                                       ELSE TDirectory_header2_big,
                                       buf, h1.offset))
        Header1(nt, h1) ==
            IF ~h1.ok THEN Raise(StructError, nt.data)
            ELSE Version(h1, Update(nt.data, h1.val))
        Names(nt) ==
            IF nt.err # "none" THEN nt
            ELSE Header1(nt, unpack_from(TDirectory_header1, buf, nt.ret[1]))
    IN Names(NameTitle_read(self, buf, off))

-----------------------------------------------------------------------------
(* TStreamed and the records derived from it.  A streamed object is         *)
(* [data, end]: end is <<_end>> once TStreamed.read has set it.  cls is the  *)
(* class of the object being read (type(self)).                             *)

TStreamed_init == [data |-> EmptyDict, end |-> << >>]

TStreamed_header1 == NamedStruct(<<F("I"), F("H")>>, <<"fSize", "fVersion">>, FALSE)

\* 0x40000000
kByteCountMask == 1073741824

\* a test of the bit below, 0x20000000
HasByteCount_WrongMask(fSize) == (fSize \div (kByteCountMask \div 2)) % 2 = 1

\* fSize & 0x40000000
HasByteCount(fSize) == (fSize \div kByteCountMask) % 2 = 1

StreamerVersionError == "Unsupported streamer version"
UnderReadError == "Did not read enough from a streamer"
OverReadError == "Read too much from a streamer"

\* TStreamed.read(self, buffer, offset)
TStreamed_read(cls, self, buf, off) ==
    LET Sized(h, size, end) ==
            Return(IF cls = "TStreamed" THEN end ELSE h.offset,
                   [data |-> Update(self.data, [h.val EXCEPT !["fSize"] = size]),
                    end |-> <<end>>])
        Header(h) ==
            IF ~h.ok THEN Raise(StructError, self)
            ELSE IF ~HasByteCount(h.val["fSize"]) THEN Raise(StreamerVersionError, self)
            ELSE Sized(h, h.val["fSize"] - kByteCountMask,
                       h.offset + (h.val["fSize"] - kByteCountMask) - 2)
    IN Header(unpack_from(TStreamed_header1, buf, off))

\* TStreamed.check(self, offset): the error it raises, "none" when it passes
TStreamed_check(self, off) ==
    IF off < self.end[1] THEN UnderReadError
    ELSE IF off > self.end[1] THEN OverReadError
    ELSE "none"

\* the check a read makes when the object is exactly of its class
CheckIfExact(cls, exact, outcome) ==
    LET Checked(raised) == IF raised # "none" THEN Raise(raised, outcome.data) ELSE outcome
    IN IF cls = exact THEN Checked(TStreamed_check(outcome.data, outcome.ret[1]))
       ELSE outcome

TObject_header1 == NamedStruct(<<F("H"), F("I"), F("I")>>,
                               <<"whatsthis", "fBits", "fUniqueID">>, FALSE)

\* TObject.read(self, buffer, offset)
TObject_read(cls, self, buf, off) ==
    LET Header(sup, h) ==
            IF ~h.ok THEN Raise(StructError, sup.data)
            ELSE CheckIfExact(cls, "TObject",
                              Return(h.offset, [sup.data EXCEPT !.data = Update(@, h.val)]))
        Super(sup) ==
            IF sup.err # "none" THEN sup
            ELSE Header(sup, unpack_from(TObject_header1, buf, sup.ret[1]))
    IN Super(TStreamed_read(cls, self, buf, off))

\* TNamed.read(self, buffer, offset)
TNamed_read(cls, self, buf, off) ==
    LET Names(sup, nt) ==
            IF nt.err # "none" THEN Raise(nt.err, [sup.data EXCEPT !.data = nt.data])
            ELSE CheckIfExact(cls, "TNamed",
                              Return(nt.ret[1], [sup.data EXCEPT !.data = nt.data]))
        Super(sup) ==
            IF sup.err # "none" THEN sup
            ELSE Names(sup, NameTitle_read(sup.data.data, buf, sup.ret[1]))
    IN Super(TObject_read(cls, self, buf, off))

TAttLine_header1 == NamedStruct(<<F("h"), F("h"), F("h")>>,
                                <<"fLineColor", "fLineStyle", "fLineWidth">>, FALSE)

TAttLineVersion == 2
AttLineVersionError == "Unrecognized TAttLine version"

\* TAttLine.read(self, buffer, offset)
TAttLine_read(cls, self, buf, off) ==
    LET Header(sup, h) ==
            IF ~h.ok THEN Raise(StructError, sup.data)
            ELSE CheckIfExact(cls, "TAttLine",
                              Return(h.offset, [sup.data EXCEPT !.data = Update(@, h.val)]))
        Super(sup) ==
            IF sup.err # "none" THEN sup
            ELSE IF sup.data.data["fVersion"] # TAttLineVersion
                 THEN Raise(AttLineVersionError, sup.data)
            ELSE Header(sup, unpack_from(TAttLine_header1, buf, sup.ret[1]))
    IN Super(TStreamed_read(cls, self, buf, off))

\* TTree.supers
TTree_supers == <<"TNamed", "TAttLine", "TStreamed", "TStreamed">>

TTree_header_v20 ==
    NamedStruct(<<F("q"), F("q"), F("q"), F("q"), F("q"), F("d"), F("i"), F("i"), F("i"),
                  F("i"), F("I"), F("q"), F("q"), F("q"), F("q"), F("q"), F("q")>>,
                <<"fEntries", "fTotBytes", "fZipBytes", "fSavedBytes", "fFlushedBytes",
                  "fWeight", "fTimerInterval", "fScanField", "fUpdate",
                  "fDefaultEntryOffsetLen", "fNClusterRange", "fMaxEntries", "fMaxEntryLoop",
                  "fMaxVirtualSize", "fAutoSave", "fAutoFlush", "fEstimate",
                  "fClusterRangeEnd", "fClusterSize", "fIOFeatures", "fBranches", "fLeaves",
                  "fAliases", "fIndexValues", "fIndex", "fTreeIndex", "fFriends">>,
                FALSE)

TTreeVersion == 20
TreeVersionError == "Unknown TTree class version"

\* superinfo = cls(); offset = superinfo.read(buffer, offset)
Super_read(cls, buf, off) ==
    CASE cls = "TNamed" -> TNamed_read(cls, TStreamed_init, buf, off)
      [] cls = "TAttLine" -> TAttLine_read(cls, TStreamed_init, buf, off)
      [] cls = "TStreamed" -> TStreamed_read(cls, TStreamed_init, buf, off)

\* the loop over TTree.supers: [err, offset, self]
RECURSIVE TTree_readsupers(_, _, _, _)
TTree_readsupers(supers, self, buf, off) ==
    LET Pass(sup) ==
            IF sup.err # "none" THEN [err |-> sup.err, offset |-> off, self |-> self]
            ELSE TTree_readsupers(Tail(supers),
                                  [self EXCEPT !.data = Update(@, Head(supers) :> sup.data)],
                                  buf, sup.ret[1])
    IN IF supers = << >> THEN [err |-> "none", offset |-> off, self |-> self]
       ELSE Pass(Super_read(Head(supers), buf, off))

\* TTree.read(self, buffer, offset)
TTree_read(self, buf, off) ==
    LET Header(sups, h) ==
            IF ~h.ok THEN Raise(StructError, sups.self)
            ELSE Return(h.offset, [sups.self EXCEPT !.data = Update(@, h.val)])
        Supers(sups) ==
            IF sups.err # "none" THEN Raise(sups.err, sups.self)
            ELSE IF sups.self.data["fVersion"] # TTreeVersion
                 THEN Raise(TreeVersionError, sups.self)
            ELSE Header(sups, unpack_from(TTree_header_v20, buf, sups.offset))
        Top(top) ==
            IF top.err # "none" THEN top
            ELSE Supers(TTree_readsupers(TTree_supers, top.data, buf, top.ret[1]))
    IN Top(TStreamed_read("TTree", self, buf, off))

\* ClassMap: the registered class names
Str_TTree == <<84, 84, 114, 101, 101>>
ClassMap == {Str_TTree}

\* ClassMap[name]().read(buffer)
Class_read(name, buf) == TTree_read(TStreamed_init, buf, 0)

-----------------------------------------------------------------------------
(* Compression: the codec registry, and the codecs it delegates to *)

\* Python values whose type matters in a comparison
PyBytes(v) == [t |-> "bytes", v |-> v]
PyStr(v) == [t |-> "str", v |-> v]
PyInt(v) == [t |-> "int", v |-> <<v>>]
\* a == b: values of different types are never equal
PyEq(a, b) == a.t = b.t /\ a.v = b.v

kZLIB == 1
kLZMA == 2
kOldCompressionAlgo == 3
kLZ4 == 4
kZSTD == 5

Str_ZL == <<90, 76>>
Str_XZ == <<88, 90>>
Str_L4 == <<76, 52>>
Str_ZS == <<90, 83>>

magicmap == (Str_ZL :> kZLIB) @@ (Str_XZ :> kLZMA) @@ (Str_L4 :> kLZ4) @@ (Str_ZS :> kZSTD)

NotImplementedError == "NotImplementedError"
CompressionError == "Compression not supported"

\* Compression.decompressor(fCompress): [err, codec]
Compression_decompressor(fCompress) ==
    LET Codec(id) ==
            IF PyEq(id, PyInt(kZLIB)) THEN [err |-> "none", codec |-> "zlib"]
            ELSE IF PyEq(id, PyInt(kLZMA)) THEN [err |-> "none", codec |-> "lzma"]
            ELSE IF PyEq(id, PyInt(kOldCompressionAlgo))
                 THEN [err |-> NotImplementedError, codec |-> "none"]
            ELSE IF PyEq(id, PyInt(kLZ4)) THEN [err |-> "none", codec |-> "lz4"]
            ELSE IF PyEq(id, PyInt(kZSTD)) THEN [err |-> NotImplementedError, codec |-> "none"]
            ELSE [err |-> CompressionError, codec |-> "none"]
    IN IF fCompress.t = "bytes" /\ fCompress.v \notin DOMAIN magicmap
       THEN [err |-> "KeyError", codec |-> "none"]
       ELSE Codec(IF fCompress.t = "bytes" THEN PyInt(magicmap[fCompress.v]) ELSE fCompress)

(* lz4.block.decompress: the LZ4 block format *)

\* a length continued in following bytes: [ok, len, rest]
RECURSIVE Lz4Length(_, _)
Lz4Length(in, acc) ==
    IF in = << >> THEN [ok |-> FALSE, len |-> acc, rest |-> in]
    ELSE IF Head(in) = 255 THEN Lz4Length(Tail(in), acc + 255)
    ELSE [ok |-> TRUE, len |-> acc + Head(in), rest |-> Tail(in)]

Lz4Nibble(nibble, in) ==
    IF nibble = 15 THEN Lz4Length(in, 15) ELSE [ok |-> TRUE, len |-> nibble, rest |-> in]

\* a match of n bytes copied byte by byte from dist bytes back: the last
\* dist bytes of out, repeated
Lz4Copy(out, dist, n) ==
    out \o [i \in 1..n |-> out[Len(out) - dist + 1 + ((i - 1) % dist)]]

\* the sequences of a block: [ok, out]
RECURSIVE Lz4Sequences(_, _, _)
Lz4Sequences(in, out, maxout) ==
    LET Match(out1, dist, ml) ==
            IF dist = 0 \/ dist > Len(out1) \/ ~ml.ok \/ Len(out1) + ml.len + 4 > maxout
            THEN [ok |-> FALSE, out |-> out1]
            ELSE Lz4Sequences(ml.rest, Lz4Copy(out1, dist, ml.len + 4), maxout)
        Offset(token, out1, rest1) ==
            IF rest1 = << >> THEN [ok |-> TRUE, out |-> out1]
            ELSE IF Len(rest1) < 2 THEN [ok |-> FALSE, out |-> out1]
            ELSE Match(out1, rest1[1] + 256 * rest1[2],
                       Lz4Nibble(token % 16, SubSeq(rest1, 3, Len(rest1))))
        Literals(token, lit) ==
            IF ~lit.ok \/ lit.len > Len(lit.rest) \/ Len(out) + lit.len > maxout
            THEN [ok |-> FALSE, out |-> out]
            ELSE Offset(token, out \o SubSeq(lit.rest, 1, lit.len),
                        SubSeq(lit.rest, lit.len + 1, Len(lit.rest)))
    IN IF in = << >> THEN [ok |-> FALSE, out |-> out]
       ELSE Literals(Head(in), Lz4Nibble(Head(in) \div 16, Tail(in)))

\* lz4_decompress(bytes, uncompressed_size=n): [err, out]
lz4_decompress(bytes, size) ==
    LET Block(r) == IF r.ok THEN [err |-> "none", out |-> r.out]
                    ELSE [err |-> "LZ4BlockError", out |-> << >>]
    IN Block(Lz4Sequences(bytes, << >>, size))

(* zlib.decompress: a zlib stream of one stored block; a stream of any     *)
(* other shape is refused (no fixture holds compressed blocks)             *)

\* the sum over i in lo..hi of weight * data[i], the weight w at hi and one
\* more at each byte before it
RECURSIVE AdlerSum(_, _, _, _, _)
AdlerSum(data, lo, hi, w, grow) ==
    IF lo > hi THEN 0
    ELSE IF lo = hi THEN w * data[lo]
    ELSE AdlerSum(data, lo, (lo + hi) \div 2, w + grow * (hi - ((lo + hi) \div 2)), grow)
         + AdlerSum(data, ((lo + hi) \div 2) + 1, hi, w, grow)

\* adler32: a is 1 plus the bytes, b the sum of the values a takes, both
\* modulo 65521; the checksum is b then a, two bytes each
Adler32(data) ==
    PackBE((Len(data) + AdlerSum(data, 1, Len(data), 1, 1)) % 65521, 2)
    \o PackBE((1 + AdlerSum(data, 1, Len(data), 1, 0)) % 65521, 2)

\* zlib_decompress(bytes): [err, out]
zlib_decompress(bytes) ==
    LET Stored(len, data) ==
            IF /\ bytes[1] % 16 = 8 /\ (bytes[1] * 256 + bytes[2]) % 31 = 0
               /\ bytes[3] = 1
               /\ bytes[6] = 255 - bytes[4] /\ bytes[7] = 255 - bytes[5]
               /\ Len(bytes) = 11 + len
               /\ SubSeq(bytes, 8 + len, 11 + len) = Adler32(data)
            THEN [err |-> "none", out |-> data]
            ELSE [err |-> "zlib.error", out |-> << >>]
    IN IF Len(bytes) >= 11
       THEN Stored(bytes[4] + 256 * bytes[5],
                   SubSeq(bytes, 8, Min(Len(bytes), 7 + bytes[4] + 256 * bytes[5])))
       ELSE [err |-> "zlib.error", out |-> << >>]

\* lzma_decompress(bytes): no fixture holds an xz stream, every input is refused
lzma_decompress(bytes) == [err |-> "LZMAError", out |-> << >>]

\* xxhash.xxh64(out).intdigest(), as its 8 bytes: a stand-in digest
\* h' = (31 * h + byte + 1) % 32749 over the bytes lo..hi, as the pair
\* [v, p] that takes h to (h * p + v) % 32749
RECURSIVE HashFold(_, _, _)
HashFold(data, lo, hi) ==
    LET Then(l, r) == [v |-> (l.v * r.p + r.v) % 32749, p |-> (l.p * r.p) % 32749]
    IN IF lo > hi THEN [v |-> 0, p |-> 1]
       ELSE IF lo = hi THEN [v |-> data[lo] + 1, p |-> 31]
       ELSE Then(HashFold(data, lo, (lo + hi) \div 2),
                 HashFold(data, ((lo + hi) \div 2) + 1, hi))
xxh64(data) ==
    LET Digest(f) == <<0, 0, 0, 0, 0, 0>> \o PackBE((7 * f.p + f.v) % 32749, 2)
    IN Digest(HashFold(data, 1, Len(data)))

\* the decompress function Compression.decompressor returns, applied
Codec_decompress(codec, bytes, size) ==
    CASE codec = "zlib" -> zlib_decompress(bytes)
      [] codec = "lzma" -> lzma_decompress(bytes)
      [] codec = "lz4" -> lz4_decompress(bytes, size)

-----------------------------------------------------------------------------
(* CompressionHeader *)

CompressionHeader_header ==
    NamedStruct(<<S(2), F("B"), S(3), S(3)>>,
                <<"magic", "version", "compressed_size", "uncompressed_size">>, FALSE)
CompressionHeader_l4header == NamedStruct(<<F("Q")>>, <<"checksum">>, TRUE)
l4dochecksum == TRUE

\* CompressionHeader.decode_size(field): struct "<I" of field + b'\x00'
decode_size(field) == field[1] + 256 * field[2] + 65536 * field[3]

\* self.data['magic'] == 'L4': the magic is bytes, the literal a str
IsL4Magic(magic) == PyEq(PyBytes(magic), PyStr(Str_L4))

\* CompressionHeader.read(self, buffer, offset)
CompressionHeader_read(self, buf, off) ==
    LET Checksum(data1, sum) ==
            IF ~sum.ok THEN Raise(StructError, data1)
            ELSE Return(sum.offset, Update(data1, [checksum |-> sum.val]))
        Magic(h, data1) ==
            IF IsL4Magic(data1["magic"])
            THEN Checksum(data1, unpack_from(CompressionHeader_l4header, buf, h.offset))
            ELSE Return(h.offset, data1)
        Header(h) ==
            IF ~h.ok THEN Raise(StructError, self)
            ELSE Magic(h, Update(self, [h.val EXCEPT
                                          !["compressed_size"] = decode_size(@),
                                          !["uncompressed_size"] = decode_size(@)]))
    IN Header(unpack_from(CompressionHeader_header, buf, off))

ChecksumError == "Checksum mismatch while decompressing"

\* CompressionHeader.decompressor(self): [err, fn]; fn is the function
\* returned: its codec, whether it is the checksumming wrapper, and the
\* header data it closes over
CompressionHeader_decompressor(self) ==
    LET Wrapped(d) ==
            IF d.err # "none"
            THEN [err |-> d.err, fn |-> [codec |-> "none", checked |-> FALSE, header |-> self]]
            ELSE [err |-> "none",
                  fn |-> [codec |-> d.codec,
                          checked |-> l4dochecksum /\ IsL4Magic(self["magic"]),
                          header |-> self]]
    IN Wrapped(Compression_decompressor(PyBytes(self["magic"])))

\* the returned function called on bytes: [err, out]
CallDecompressor(fn, bytes) ==
    LET Checked(r) ==
            IF r.err # "none" THEN r
            ELSE IF fn.checked /\ xxh64(r.out) # fn.header["checksum"]
                 THEN [err |-> ChecksumError, out |-> << >>]
            ELSE r
    IN Checked(Codec_decompress(fn.codec, bytes, fn.header["uncompressed_size"]))

-----------------------------------------------------------------------------
(* XRootDFile: the byte source, and ROOTFile.open *)

\* XRootDFile.read(offset, size): the bytes of the file from offset, at most
\* size of them and at most servelimit per call
SourceRead(off, size) ==
    IF size <= 0 THEN << >> ELSE Slice(file, off, off + Min(size, servelimit))

\* a read as the transport saw it; need is the shortfall a growth read was
\* sized for (0 for the other reads), got the number of bytes returned
ReadEntry(why, at, size, need) ==
    [why |-> why, at |-> at, size |-> size, need |-> need,
     got |-> Len(SourceRead(at, size))]

DefaultReadStep == 512

\* ROOTFile.__init__
ROOTFile_init ==
    /\ pc = "new"
    /\ headbytes = << >> /\ offset = 0
    /\ fileheader = EmptyDict /\ rootkey = EmptyDict /\ rootdir = EmptyDict
    /\ keyslist = TKeyList_init
    /\ err = "none" /\ reads = << >> /\ warned = << >>
    /\ more = 0 /\ keysbytes = << >>
    /\ request = << >> /\ objkey = << >> /\ objbytes = << >> /\ obj = NoAnswer
    /\ job = NoJob

\* the exception leaves open
OpenFails(kind) == err' = kind /\ pc' = "failed"

RootKeyWarning == "Readahead too small in file open to reach root key"
RootDirWarning == "Readahead too small in file open to reach end of root directory header"
RootDirError == "Root directory object not immediately after key"

\* a seek test that only catches a root key that points before fBEGIN
SeekMismatch_Behind(seekkey, begin) == seekkey < begin

\* the seek test of open: self.rootkey.data['fSeekKey'] != self.fileheader.data['fBEGIN']
SeekMismatch(seekkey, begin) == seekkey # begin

\* the size of the growth read before the root key
MoreForRootKey(off, have, readstep) == Max(off + TKey_minsize - have, readstep)

\* the size of the growth read before the root directory
MoreForRootDir(off, objlen, have, readstep) == off + objlen - have

\* headbytes = await self._file.read(0, self._open_readstep)
Open_ReadHead ==
    /\ pc = "new"
    /\ headbytes' = SourceRead(0, step)
    /\ reads' = Append(reads, ReadEntry("head", 0, step, 0))
    /\ pc' = "fileheader"
    /\ UNCHANGED <<file, servelimit, step, offset, fileheader, rootkey, rootdir, keyslist,
                   err, warned, more, keysbytes, request, objkey, objbytes, obj, job>>
    /\ UNCHANGED <<harnessVars, asyncVars>>

\* offset = self.fileheader.read(headbytes), and the test for a growth read
Open_FileHeader ==
    /\ pc = "fileheader"
    /\ LET r == TFile_read(fileheader, headbytes, 0)
       IN /\ fileheader' = r.data
          /\ IF r.err # "none"
             THEN OpenFails(r.err) /\ UNCHANGED <<offset, warned, more>>
             ELSE /\ offset' = r.ret[1]
                  /\ err' = err
                  /\ IF r.ret[1] + TKey_minsize > Len(headbytes)
                     THEN /\ warned' = Append(warned, RootKeyWarning)
                          /\ more' = MoreForRootKey(r.ret[1], Len(headbytes), step)
                          /\ pc' = "grow_rootkey"
                     ELSE pc' = "rootkey" /\ UNCHANGED <<warned, more>>
    /\ UNCHANGED <<file, servelimit, step, headbytes, rootkey, rootdir, keyslist,
                   reads, keysbytes, request, objkey, objbytes, obj, job>>
    /\ UNCHANGED <<harnessVars, asyncVars>>

\* a growth read that starts at the cursor instead of the end of the buffer
GrowHead_AtCursor(why, need, next) ==
    /\ headbytes' = headbytes \o SourceRead(offset, more)
    /\ reads' = Append(reads, ReadEntry(why, offset, more, need))
    /\ pc' = next
    /\ UNCHANGED <<file, servelimit, step, offset, fileheader, rootkey, rootdir, keyslist,
                   err, warned, more, keysbytes, request, objkey, objbytes, obj, job>>
    /\ UNCHANGED <<harnessVars, asyncVars>>

\* headbytes = headbytes + (await self._file.read(len(headbytes), more))
GrowHead(why, need, next) ==
    /\ headbytes' = headbytes \o SourceRead(Len(headbytes), more)
    /\ reads' = Append(reads, ReadEntry(why, Len(headbytes), more, need))
    /\ pc' = next
    /\ UNCHANGED <<file, servelimit, step, offset, fileheader, rootkey, rootdir, keyslist,
                   err, warned, more, keysbytes, request, objkey, objbytes, obj, job>>
    /\ UNCHANGED <<harnessVars, asyncVars>>

Open_GrowRootKey ==
    /\ pc = "grow_rootkey"
    /\ GrowHead("grow_rootkey", offset + TKey_minsize - Len(headbytes), "rootkey")

\* offset = self.rootkey.read(headbytes, offset), the seek test, and the
\* test for a growth read
Open_RootKey ==
    /\ pc = "rootkey"
    /\ LET r == TKey_read(rootkey, headbytes, offset)
       IN /\ rootkey' = r.data
          /\ IF r.err # "none"
             THEN OpenFails(r.err) /\ UNCHANGED <<offset, warned, more>>
             ELSE /\ offset' = r.ret[1]
                  /\ IF SeekMismatch(r.data["fSeekKey"], fileheader["fBEGIN"])
                     THEN OpenFails(RootDirError) /\ UNCHANGED <<warned, more>>
                     ELSE /\ err' = err
                          /\ IF r.ret[1] + r.data["fObjlen"] > Len(headbytes)
                             THEN /\ warned' = Append(warned, RootDirWarning)
                                  /\ more' = MoreForRootDir(r.ret[1], r.data["fObjlen"],
                                                            Len(headbytes), step)
                                  /\ pc' = "grow_rootdir"
                             ELSE pc' = "rootdir" /\ UNCHANGED <<warned, more>>
    /\ UNCHANGED <<file, servelimit, step, headbytes, fileheader, rootdir, keyslist,
                   reads, keysbytes, request, objkey, objbytes, obj, job>>
    /\ UNCHANGED <<harnessVars, asyncVars>>

Open_GrowRootDir ==
    /\ pc = "grow_rootdir"
    /\ GrowHead("grow_rootdir", offset + rootkey["fObjlen"] - Len(headbytes), "rootdir")

\* offset = self.rootdir.read(headbytes, offset)
Open_RootDir ==
    /\ pc = "rootdir"
    /\ LET r == TDirectory_read(rootdir, headbytes, offset)
       IN /\ rootdir' = r.data
          /\ IF r.err # "none"
             THEN OpenFails(r.err) /\ UNCHANGED offset
             ELSE offset' = r.ret[1] /\ err' = err /\ pc' = "readkeys"
    /\ UNCHANGED <<file, servelimit, step, headbytes, fileheader, rootkey, keyslist,
                   reads, warned, more, keysbytes, request, objkey, objbytes, obj, job>>
    /\ UNCHANGED <<harnessVars, asyncVars>>

\* keysbytes = await self._file.read(fSeekKeys, fNbytesKeys)
Open_ReadKeys ==
    /\ pc = "readkeys"
    /\ keysbytes' = SourceRead(rootdir["fSeekKeys"], rootdir["fNbytesKeys"])
    /\ reads' = Append(reads, ReadEntry("keys", rootdir["fSeekKeys"], rootdir["fNbytesKeys"], 0))
    /\ pc' = "keyslist"
    /\ UNCHANGED <<file, servelimit, step, headbytes, offset, fileheader, rootkey, rootdir,
                   keyslist, err, warned, more, request, objkey, objbytes, obj, job>>
    /\ UNCHANGED <<harnessVars, asyncVars>>

\* offset = self.keyslist.read(keysbytes); return self
Open_KeyList ==
    /\ pc = "keyslist"
    /\ LET r == TKeyList_read(keyslist, keysbytes, 0)
       IN /\ keyslist' = r.data
          /\ IF r.err # "none"
             THEN OpenFails(r.err) /\ UNCHANGED offset
             ELSE offset' = r.ret[1] /\ err' = err /\ pc' = "open"
    /\ UNCHANGED <<file, servelimit, step, headbytes, fileheader, rootkey, rootdir,
                   reads, warned, more, keysbytes, request, objkey, objbytes, obj, job>>
    /\ UNCHANGED <<harnessVars, asyncVars>>

-----------------------------------------------------------------------------
(* ROOTFile.__getitem__ *)

GetItemOp == "ROOTFile.__getitem__"

\* __getitem__ raises: the caller gets the exception, the file stays open
GetItemFails(kind) ==
    /\ obj' = [op |-> GetItemOp, err |-> kind, key |-> EmptyDict]
    /\ pc' = "open"

\* obj.read(objbytes); key.data['object'] = obj; return obj
GetItemDecodes(payload) ==
    LET r == Class_read(keyslist.keys[objkey]["fClassName"], payload)
    IN IF r.err # "none"
       THEN GetItemFails(r.err) /\ UNCHANGED keyslist
       ELSE /\ keyslist' = [keyslist EXCEPT !.keys[objkey] = Update(@, [object |-> r.data])]
            /\ obj' = [op |-> GetItemOp, err |-> "none", key |-> r.data]
            /\ pc' = "open"

\* the payload reads issued so far
ObjectReads == Len(SelectSeq(reads, LAMBDA r : r.why = "object"))

\* the number of fetches that reach their payload read in one behaviour
MaxFetches == 2

\* key = self.keyslist[key]; obj = ClassMap[key.data['fClassName']]()
GetItem_Lookup(name) ==
    /\ pc \in {"new", "open"}
    /\ ObjectReads < MaxFetches
    /\ request' = name
    /\ LET found == TKeyList_getitem(keyslist, name)
       IN IF found.err # "none"
          THEN /\ obj' = [op |-> GetItemOp, err |-> "KeyError: key", key |-> EmptyDict]
               /\ UNCHANGED <<pc, objkey>>
          ELSE IF found.key["fClassName"] \notin ClassMap
          THEN /\ obj' = [op |-> GetItemOp, err |-> "KeyError: class", key |-> EmptyDict]
               /\ UNCHANGED <<pc, objkey>>
          ELSE /\ objkey' = TKey_namecycle(found.key)
               /\ obj' = NoAnswer
               /\ pc' = "getitem_read"
    /\ UNCHANGED <<file, servelimit, step, headbytes, offset, fileheader, rootkey, rootdir,
                   keyslist, err, reads, warned, more, keysbytes, objbytes, job>>
    /\ UNCHANGED <<harnessVars, asyncVars>>

\* objbytes = await self._file.read(fSeekKey + fKeylen, fNbytes - fKeylen)
GetItem_Read ==
    /\ pc = "getitem_read"
    /\ LET key == keyslist.keys[objkey]
           at == key["fSeekKey"] + key["fKeylen"]
           size == key["fNbytes"] - key["fKeylen"]
       IN /\ objbytes' = SourceRead(at, size)
          /\ reads' = Append(reads, ReadEntry("object", at, size, 0))
    /\ pc' = "getitem_payload"
    /\ UNCHANGED <<file, servelimit, step, headbytes, offset, fileheader, rootkey, rootdir,
                   keyslist, err, warned, more, keysbytes, request, objkey, obj, job>>
    /\ UNCHANGED <<harnessVars, asyncVars>>

\* if key.compressed: read the compression header and hand the rest of the
\* payload to the pool; else decode the payload
GetItem_Payload ==
    /\ pc = "getitem_payload"
    /\ IF TKey_compressed(keyslist.keys[objkey])
       THEN LET ch == CompressionHeader_read(EmptyDict, objbytes, 0)
                dec == CompressionHeader_decompressor(ch.data)
            IN IF ch.err # "none" THEN GetItemFails(ch.err) /\ UNCHANGED <<keyslist, job>>
               ELSE IF dec.err # "none" THEN GetItemFails(dec.err) /\ UNCHANGED <<keyslist, job>>
               ELSE /\ job' = [state |-> "queued", fn |-> dec.fn,
                               bytes |-> Slice(objbytes, ch.ret[1], Len(objbytes))]
                    /\ pc' = "getitem_decompress"
                    /\ UNCHANGED <<keyslist, obj>>
       ELSE GetItemDecodes(objbytes) /\ UNCHANGED job
    /\ UNCHANGED <<file, servelimit, step, headbytes, offset, fileheader, rootkey, rootdir,
                   err, reads, warned, more, keysbytes, request, objkey, objbytes>>
    /\ UNCHANGED <<harnessVars, asyncVars>>

\* a worker of the pool runs the queued function
Pool_Run ==
    /\ job.state = "queued"
    /\ job' = [state |-> "done", result |-> CallDecompressor(job.fn, job.bytes)]
    /\ UNCHANGED <<file, servelimit, step, pc, headbytes, offset, fileheader, rootkey, rootdir,
                   keyslist, err, reads, warned, more, keysbytes, request, objkey, objbytes,
                   obj>>
    /\ UNCHANGED <<harnessVars, asyncVars>>

\* objbytes = await self._run_in_pool(...) resumes, then the payload is decoded
GetItem_Decompressed ==
    /\ pc = "getitem_decompress"
    /\ job.state = "done"
    /\ job' = NoJob
    /\ IF job.result.err # "none"
       THEN GetItemFails(job.result.err) /\ UNCHANGED <<keyslist, objbytes>>
       ELSE objbytes' = job.result.out /\ GetItemDecodes(job.result.out)
    /\ UNCHANGED <<file, servelimit, step, headbytes, offset, fileheader, rootkey, rootdir,
                   err, reads, warned, more, keysbytes, request, objkey>>
    /\ UNCHANGED <<harnessVars, asyncVars>>

-----------------------------------------------------------------------------
(* Fixtures: file headers *)

\* the bytes of a file header with the given magic, version and begin offset;
\* the bytes up to fBEGIN are zero
TFileBytes(magic, version, begin) ==
    LET h == pack(TFile_header1.fmt, <<magic, version, begin>>)
             \o pack(IF version < BigFileVersion THEN TFile_header2_small.fmt
                     ELSE TFile_header2_big.fmt,
                     <<begin + 200, 0, 0, 1, 58, 4, 101, 0, 0, <<0, 1>> >>)
    IN h \o Zeros(begin - Len(h))

-----------------------------------------------------------------------------
(* The decoder harness: a decoder applied to a buffer drawn from a bounded set *)

\* the orchestrator's variables, at rest
FileIdle ==
    /\ file = << >> /\ servelimit = 0 /\ step = 0 /\ pc = "idle"
    /\ headbytes = << >> /\ offset = 0
    /\ fileheader = EmptyDict /\ rootkey = EmptyDict /\ rootdir = EmptyDict
    /\ keyslist = EmptyDict /\ err = "none" /\ reads = << >> /\ warned = << >>
    /\ more = 0 /\ keysbytes = << >>
    /\ request = << >> /\ objkey = << >> /\ objbytes = << >> /\ obj = NoAnswer
    /\ job = NoJob

HarnessIdle ==
    /\ buffer = << >> /\ start = 0 /\ res = NotRun /\ query = << >> /\ answer = NoAnswer

\* no read issued by the byte source, nothing handed to the loop
AsyncIdle ==
    /\ futures = << >> /\ waiters = << >> /\ calls = << >> /\ ready = << >>
    /\ servers = 0 /\ loopfails = << >>
    /\ threadpool = "None" /\ fetches = << >>

(* TFile.read on every prefix of a set of headers *)

\* the longest header prefix tried beyond the 64-bit header's 75 bytes
ExtraBytes == 2

HeaderMagics == {RootMagic, <<114, 111, 111, 84>>, <<82, 111, 111, 116>>, <<0, 0, 0, 0>>}
HeaderVersions == {BigFileVersion - 1, BigFileVersion, 61804}
FullHeaders == {TFileBytes(m, v, 100) : m \in HeaderMagics, v \in HeaderVersions}
HeaderInputs ==
    {SubSeq(h, 1, n) : h \in FullHeaders,
                       n \in 0..(calcsize(TFile_header1.fmt) + calcsize(TFile_header2_big.fmt) + ExtraBytes)}

InitTFile ==
    /\ buffer \in HeaderInputs
    /\ start = 0 /\ res = NotRun /\ query = << >> /\ answer = NoAnswer
    /\ FileIdle /\ AsyncIdle

DecodeTFile ==
    /\ res = NotRun
    /\ res' = Ran("TFile.read", TFile_read(EmptyDict, buffer, start))
    /\ UNCHANGED <<buffer, start, query, answer>>
    /\ UNCHANGED <<fileVars, asyncVars>>

NextTFile == DecodeTFile

SpecTFile == InitTFile /\ [][NextTFile]_vars

-----------------------------------------------------------------------------
(* Fixtures: key records *)

\* a string as TString writes it: a length byte, or 255 and a 4-byte length
WriteString(str) ==
    IF Len(str) < 255 THEN <<Len(str)>> \o str
    ELSE <<255>> \o PackBE(Len(str), 4) \o str

\* the bytes of a key record; k.strings holds the three string fields as
\* written, k.fKeylen the stored header length
TKeyBytes(k) ==
    pack(TKey_header1.fmt,
         <<k.fNbytes, k.fVersion, k.fObjlen, k.fDatime, k.fKeylen, k.fCycle>>)
    \o pack(IF k.fVersion < BigKeyVersion THEN TKey_header2_small.fmt
            ELSE TKey_header2_big.fmt, <<k.fSeekKey, k.fSeekPdir>>)
    \o k.strings[1] \o k.strings[2] \o k.strings[3]

\* the length of a key record as written
KeyLength(version, strings) ==
    calcsize(TKey_header1.fmt)
    + (IF version < BigKeyVersion THEN calcsize(TKey_header2_small.fmt)
       ELSE calcsize(TKey_header2_big.fmt))
    + Len(strings[1]) + Len(strings[2]) + Len(strings[3])

\* a key whose stored fKeylen is its true length plus skew
MakeKey(version, cycle, seekkey, nbytes, objlen, strings, skew) ==
    [fNbytes |-> nbytes, fVersion |-> version, fObjlen |-> objlen, fDatime |-> 1234,
     fKeylen |-> KeyLength(version, strings) + skew, fCycle |-> cycle,
     fSeekKey |-> seekkey, fSeekPdir |-> 0, strings |-> strings]

Str_TFile == <<84, 70, 105, 108, 101>>
Str_h1 == <<104, 49>>
Str_h1_1 == <<104, 49, 59, 49>>
Str_Events == <<69, 118, 101, 110, 116, 115>>
Str_title == <<116>>

(* TKey.read on key records with a skewed fKeylen, at two offsets, truncated *)

\* fKeylen is off by up to this much
MaxSkew == 2
\* up to this many bytes are cut from the end of the buffer
MaxCut == 3

\* string fields: plain ones, an empty title, a title in the extended
\* encoding, and a title whose extended length is negative
KeyStrings ==
    { <<WriteString(Str_TTree), WriteString(Str_Events), WriteString(Str_title)>>,
      <<WriteString(Str_TFile), WriteString(Str_h1), WriteString(<< >>)>>,
      <<WriteString(Str_TTree), WriteString(Str_h1), WriteString(Zeros(255))>>,
      <<WriteString(Str_TTree), WriteString(Str_h1), <<255>> \o PackBE(0 - 2, 4)>> }

KeyInputs ==
    { [lead |-> lead,
       bytes |-> LET b == Zeros(lead)
                         \o TKeyBytes(MakeKey(v, 1, 100, 300, 200, strs, skew))
                 IN SubSeq(b, 1, Len(b) - cut)]
      : lead \in {0, 5}, v \in {BigKeyVersion - 1, BigKeyVersion}, strs \in KeyStrings,
        skew \in (0 - MaxSkew)..MaxSkew, cut \in 0..MaxCut }

InitTKey ==
    /\ \E in \in KeyInputs : buffer = in.bytes /\ start = in.lead
    /\ res = NotRun /\ query = << >> /\ answer = NoAnswer
    /\ FileIdle /\ AsyncIdle

DecodeTKey ==
    /\ res = NotRun
    /\ res' = Ran("TKey.read", TKey_read(EmptyDict, buffer, start))
    /\ UNCHANGED <<buffer, start, query, answer>>
    /\ UNCHANGED <<fileVars, asyncVars>>

NextTKey == DecodeTKey

SpecTKey == InitTKey /\ [][NextTKey]_vars

-----------------------------------------------------------------------------
(* Fixtures: key lists *)

RECURSIVE Concat(_)
Concat(seqs) == IF seqs = << >> THEN << >> ELSE Head(seqs) \o Concat(Tail(seqs))

\* the key record of an entry [name, cycle] of a key list
EntryKey(e) ==
    MakeKey(4, e.cycle, 300, 120, 150,
            <<WriteString(Str_TTree), WriteString(e.name), WriteString(Str_title)>>, 0)

\* the bytes of a key list: the head key, the declared count, the key
\* records, then trailing bytes up to the declared end
KeyListBytes(keys, declared, trailing) ==
    LET body == PackBE(declared, 4)
                \o Concat([i \in 1..Len(keys) |-> TKeyBytes(keys[i])])
                \o [i \in 1..trailing |-> 7]
        strs == <<WriteString(Str_TFile), WriteString(Str_title), WriteString(<< >>)>>
        head == MakeKey(4, 1, 100, KeyLength(4, strs) + Len(body), Len(body), strs, 0)
    IN TKeyBytes(head) \o body

(* TKeyList.read on key lists, then lookups *)

\* the longest key list
MaxKeys == 3
\* the greatest cycle number
MaxCycle == 2
\* the most trailing bytes after the last key
MaxTrailing == 1

EntryNames == {Str_h1, Str_h1_1}
EntryCycles == {0 - 1} \cup 1..MaxCycle
Entries == [name : EntryNames, cycle : EntryCycles]

RECURSIVE SeqsUpTo(_, _)
SeqsUpTo(set, n) ==
    IF n = 0 THEN {<< >>}
    ELSE LET shorter == SeqsUpTo(set, n - 1)
         IN shorter \cup {Append(q, x) : q \in {r \in shorter : Len(r) = n - 1}, x \in set}

KeyListInputs ==
    { KeyListBytes([i \in 1..Len(es) |-> EntryKey(es[i])], Len(es) + d, t)
      : es \in SeqsUpTo(Entries, MaxKeys), d \in {0 - 1, 0, 1}, t \in 0..MaxTrailing }

LookupNames ==
    EntryNames \cup {namecycle(n, c) : n \in EntryNames, c \in EntryCycles} \cup {Str_Events}

InitKeyList ==
    /\ buffer \in KeyListInputs
    /\ start = 0 /\ res = NotRun /\ query = << >> /\ answer = NoAnswer
    /\ FileIdle /\ AsyncIdle

DecodeKeyList ==
    /\ res = NotRun
    /\ res' = Ran("TKeyList.read", TKeyList_read(TKeyList_init, buffer, start))
    /\ UNCHANGED <<buffer, start, query, answer>>
    /\ UNCHANGED <<fileVars, asyncVars>>

\* keyslist[name] on a decoded key list
Lookup ==
    /\ res.op = "TKeyList.read" /\ res.err = "none"
    /\ \E name \in LookupNames :
          /\ query' = name
          /\ answer' = Ran("TKeyList.__getitem__", TKeyList_getitem(res.data, name))
    /\ UNCHANGED <<buffer, start, res>>
    /\ UNCHANGED <<fileVars, asyncVars>>

NextKeyList == DecodeKeyList \/ Lookup

SpecKeyList == InitKeyList /\ [][NextKeyList]_vars

-----------------------------------------------------------------------------
(* Fixtures: streamed objects, compressed payloads and whole files *)

\* a streamed section: the size field with the byte-count flag, the version,
\* the body
Envelope(version, body) ==
    PackBE(kByteCountMask + Len(body) + 2, 4) \o PackBE(version, 2) \o body

TNamedBytes(name, title) ==
    Envelope(1, pack(TObject_header1.fmt, <<1, 0, 0>>)
                \o WriteString(name) \o WriteString(title))

\* the unparsed bytes that follow the numeric block of a tree
TreeTail == <<9, 8, 7, 6, 5>>

\* the bytes of a tree: its envelope, the four predecessor sections, the
\* numeric block (every field zero but fEntries) and the unparsed rest
TTreeBytes(name, version, entries) ==
    Envelope(version,
             TNamedBytes(name, Str_title)
             \o Envelope(TAttLineVersion, pack(TAttLine_header1.fmt, <<1, 1, 1>>))
             \o Envelope(2, <<0, 0, 0, 0>>)
             \o Envelope(2, <<0, 0, 0, 0, 0, 0>>)
             \o pack(TTree_header_v20.fmt,
                     <<entries, 0, 0, 0, 0, << >>, 0, 0, 0, 0, 0, 0, 0, 0, 0, 0, 0>>)
             \o TreeTail)

\* a length of 15 or more continued in following bytes
RECURSIVE Lz4Ext(_)
Lz4Ext(n) == IF n < 255 THEN <<n>> ELSE <<255>> \o Lz4Ext(n - 255)
Lz4Nib(n) == IF n < 15 THEN n ELSE 15
Lz4More(n) == IF n < 15 THEN << >> ELSE Lz4Ext(n - 15)

\* an LZ4 block of data = lits, then run more copies of the last byte of
\* lits, then last (run >= 4): one sequence with a match at distance 1 and a
\* closing sequence of literals
Lz4Block(lits, run, last) ==
    <<Lz4Nib(Len(lits)) * 16 + Lz4Nib(run - 4)>> \o Lz4More(Len(lits)) \o lits
    \o <<1, 0>> \o Lz4More(run - 4)
    \o <<Lz4Nib(Len(last)) * 16>> \o Lz4More(Len(last)) \o last

\* the number of zero bytes that end the numeric block of a tree
TreeZeros == calcsize(TTree_header_v20.fmt) - 8

\* a tree as an LZ4 block
TreeBlock(tree) ==
    Lz4Block(SubSeq(tree, 1, Len(tree) - Len(TreeTail) - TreeZeros + 1), TreeZeros - 1, TreeTail)

\* sizes as CompressionHeader stores them: 3 bytes, little-endian
Pack3LE(n) == <<n % 256, (n \div 256) % 256, (n \div 65536) % 256>>

\* a compressed payload: the 9-byte header, the checksum of data when the
\* codec is LZ4, the block
Compressed(magic, block, data, checksum) ==
    pack(CompressionHeader_header.fmt, <<magic, 1, Pack3LE(Len(block)), Pack3LE(Len(data))>>)
    \o (IF magic = Str_L4 THEN checksum ELSE << >>)
    \o block

\* an object of a file: its key's identity and class, its payload as
\* stored, the length of the payload uncompressed
Object(name, cycle, class, stored, objlen) ==
    [name |-> name, cycle |-> cycle, class |-> class, stored |-> stored, objlen |-> objlen]

ObjectStrings(o) == <<WriteString(o.class), WriteString(o.name), WriteString(Str_title)>>
ObjectKey(o, seek) ==
    MakeKey(4, o.cycle, seek, KeyLength(4, ObjectStrings(o)) + Len(o.stored), o.objlen,
            ObjectStrings(o), 0)
ObjectBytes(o, seek) == TKeyBytes(ObjectKey(o, seek)) \o o.stored

\* where the i-th object of objs starts when the first starts at base
RECURSIVE SeekOf(_, _, _)
SeekOf(objs, i, base) ==
    IF i = 1 THEN base
    ELSE SeekOf(objs, i - 1, base) + Len(ObjectBytes(objs[i - 1], 0))

Str_TH1F == <<84, 72, 49, 70>>
Str_f == <<102>>

EventsTree == TTreeBytes(Str_Events, TTreeVersion, 100)
H1Tree == TTreeBytes(Str_h1, TTreeVersion, 7)

\* the objects of every file: a plain tree "Events;1", an object "h1;1" of
\* an unregistered class, an LZ4-compressed tree "h1;2"
FileObjects ==
    << Object(Str_Events, 1, Str_TTree, EventsTree, Len(EventsTree)),
       Object(Str_h1, 1, Str_TH1F, <<1, 2, 3, 4>>, 4),
       Object(Str_h1, 2, Str_TTree,
              Compressed(Str_L4, TreeBlock(H1Tree), H1Tree, xxh64(H1Tree)), Len(H1Tree)) >>

\* the directory record of the root directory
DirBytes(version, seekdir, seekkeys, nbyteskeys) ==
    WriteString(Str_f) \o WriteString(<< >>)
    \o pack(TDirectory_header1.fmt, <<version, 1234, 1234, nbyteskeys, 0>>)
    \o pack(IF version < BigDirectoryVersion THEN TDirectory_header2_small.fmt
            ELSE TDirectory_header2_big.fmt, <<seekdir, 0, seekkeys>>)

\* a file: the header up to begin, the root key (its fSeekKey off by
\* seekskew), the directory record, the objects, the key list
FileBytes(begin, big, seekskew) ==
    LET kv == IF big THEN BigKeyVersion + 4 ELSE 4
        dv == IF big THEN BigDirectoryVersion + 5 ELSE 5
        fv == IF big THEN BigFileVersion + 62206 ELSE 62206
        rstrs == <<WriteString(Str_TFile), WriteString(Str_f), WriteString(<< >>)>>
        keylen == KeyLength(kv, rstrs)
        dirlen == Len(DirBytes(dv, 0, 0, 0))
        base == begin + keylen + dirlen
        n == Len(FileObjects)
        objs == Concat([i \in 1..n |-> ObjectBytes(FileObjects[i], SeekOf(FileObjects, i, base))])
        klist == KeyListBytes([i \in 1..n |-> ObjectKey(FileObjects[i], SeekOf(FileObjects, i, base))],
                              n, 0)
    IN TFileBytes(RootMagic, fv, begin)
       \o TKeyBytes(MakeKey(kv, 1, begin + seekskew, keylen + dirlen, dirlen, rstrs, 0))
       \o DirBytes(dv, begin, base + Len(objs), Len(klist))
       \o objs \o klist

(* ROOTFile.open, then fetches, on a set of files, read steps and byte sources *)

ReadSteps == {DefaultReadStep \div 2, DefaultReadStep, DefaultReadStep * 8}

\* where the root key starts
Begins == {100, 230, 250, 460, 480, 500}

OpenFiles == {FileBytes(b, big, skew) : b \in Begins, big \in BOOLEAN, skew \in {0, 1}}

\* a byte source that returns at most 200 bytes per read, and one that
\* returns whatever is asked for
ServeLimits(f) == {200, Len(f)}

Requests == {Str_Events, Str_h1, namecycle(Str_h1, 1), namecycle(Str_Events, 2), Str_TFile}

InitOpen ==
    /\ file \in OpenFiles
    /\ servelimit \in ServeLimits(file)
    /\ step \in ReadSteps
    /\ ROOTFile_init
    /\ HarnessIdle /\ AsyncIdle

NextOpen ==
    \/ Open_ReadHead
    \/ Open_FileHeader
    \/ Open_GrowRootKey
    \/ Open_RootKey
    \/ Open_GrowRootDir
    \/ Open_RootDir
    \/ Open_ReadKeys
    \/ Open_KeyList
    \/ \E name \in Requests : GetItem_Lookup(name)
    \/ GetItem_Read
    \/ GetItem_Payload
    \/ Pool_Run
    \/ GetItem_Decompressed

SpecOpen == InitOpen /\ [][NextOpen]_vars

\* the files whose root key points at itself
WellFormedFiles == {FileBytes(b, big, 0) : b \in Begins, big \in BOOLEAN}

-----------------------------------------------------------------------------
(* CompressionHeader on payloads: read, decompressor(), then the call *)

\* a zlib stream of one stored block
ZlibStored(data) ==
    <<120, 1, 1>> \o <<Len(data) % 256, Len(data) \div 256>>
    \o <<255 - (Len(data) % 256), 255 - (Len(data) \div 256)>>
    \o data \o Adler32(data)

Str_CS == <<67, 83>>
CompressMagics == {Str_L4, Str_ZL, Str_XZ, Str_ZS, Str_CS}
PayloadData == {H1Tree, EventsTree, TTreeBytes(Str_h1, TTreeVersion, 8)}

\* the checksum of data, and one that differs from it in its last byte
Checksums(data) ==
    {xxh64(data), [xxh64(data) EXCEPT ![8] = (@ + 1) % 256]}

BlockOf(magic, data) == IF magic = Str_ZL THEN ZlibStored(data) ELSE TreeBlock(data)

\* the lengths payloads are cut to (0: not cut)
PayloadCuts == {0, 5, 12}

CompressedPayloads ==
    {Compressed(m, BlockOf(m, d), d, c) : m \in CompressMagics, d \in PayloadData,
                                         c \in UNION {Checksums(x) : x \in PayloadData}}

CompressInputs ==
    {IF n = 0 THEN p ELSE SubSeq(p, 1, n) : p \in CompressedPayloads, n \in PayloadCuts}

InitCompress ==
    /\ buffer \in CompressInputs
    /\ start = 0 /\ res = NotRun /\ query = << >> /\ answer = NoAnswer
    /\ FileIdle /\ AsyncIdle

\* offset = cheader.read(objbytes)
ReadCompressionHeader ==
    /\ res = NotRun
    /\ res' = Ran("CompressionHeader.read", CompressionHeader_read(EmptyDict, buffer, 0))
    /\ UNCHANGED <<buffer, start, query, answer>>
    /\ UNCHANGED <<fileVars, asyncVars>>

\* where a caller makes the block start: at the offset read returned, or
\* after the checksum field of an LZ4 payload
BlockOffsets ==
    {res.ret[1]}
    \cup (IF res.data["magic"] = Str_L4
          THEN {calcsize(CompressionHeader_header.fmt) + calcsize(CompressionHeader_l4header.fmt)}
          ELSE {})

\* fn = cheader.decompressor(), handed to the pool with the block
MakeDecompressor ==
    /\ res.op = "CompressionHeader.read" /\ res.err = "none"
    /\ job = NoJob /\ answer = NoAnswer
    /\ LET Made(dec) ==
               IF dec.err # "none"
               THEN /\ answer' = [op |-> "CompressionHeader.decompressor", err |-> dec.err,
                                  key |-> EmptyDict]
                    /\ UNCHANGED <<start, job>>
               ELSE /\ \E at \in BlockOffsets :
                          /\ start' = at
                          /\ job' = [state |-> "queued", fn |-> dec.fn,
                                     bytes |-> Slice(buffer, at, Len(buffer))]
                    /\ UNCHANGED answer
       IN Made(CompressionHeader_decompressor(res.data))
    /\ UNCHANGED <<buffer, res, query>>
    /\ UNCHANGED <<file, servelimit, step, pc, headbytes, offset, fileheader, rootkey, rootdir,
                   keyslist, err, reads, warned, more, keysbytes, request, objkey, objbytes,
                   obj>>
    /\ UNCHANGED asyncVars

NextCompress == ReadCompressionHeader \/ MakeDecompressor \/ Pool_Run

SpecCompress == InitCompress /\ [][NextCompress]_vars

-----------------------------------------------------------------------------
(* C1: the magic check of TFile.read *)

DecodedTFile == res.op = "TFile.read"
FirstFour == SubSeq(buffer, 1, Min(4, Len(buffer)))

\* the version field as it stands in the buffer, and the header size it selects
BufferVersion == IntBE(SubSeq(buffer, 5, 8), TRUE)
FullHeaderSize ==
    calcsize(TFile_header1.fmt)
    + (IF BufferVersion < 1000000 THEN calcsize(TFile_header2_small.fmt)
       ELSE calcsize(TFile_header2_big.fmt))

\* C1 as stated: for every buffer, TFile.read fails with the magic-mismatch
\* error whenever the first 4 bytes differ from "root", and a buffer whose
\* first 4 bytes are "root" always decodes successfully.
C1_MagicAloneDecides ==
    DecodedTFile =>
        /\ (Len(buffer) >= 4 /\ FirstFour # RootMagic) => res.err = "Wrong magic"
        /\ FirstFour = RootMagic => res.err = "none"

\* C1 amended: for every buffer that holds the 12-byte first header,
\* TFile.read fails with the magic-mismatch error exactly when the first 4
\* bytes differ from "root"; with the magic "root" it succeeds exactly when
\* the buffer also holds the whole second header the version selects, and
\* otherwise fails with the unpacker's buffer-too-short error; a buffer
\* shorter than the first header always fails with that error.
C1_MagicDecidesCompleteHeaders ==
    DecodedTFile =>
        IF Len(buffer) < calcsize(TFile_header1.fmt)
        THEN res.err = StructError
        ELSE /\ (res.err = "Wrong magic") <=> (FirstFour # RootMagic)
             /\ FirstFour = RootMagic =>
                   /\ res.err \in {"none", StructError}
                   /\ (res.err = "none") <=> (Len(buffer) >= FullHeaderSize)

\* a complete header with a magic that differs from "root" in one letter
\* was refused
C1_Witness ==
    /\ DecodedTFile
    /\ Len(buffer) >= calcsize(TFile_header1.fmt)
    /\ Len(buffer) >= FullHeaderSize
    /\ FirstFour = <<114, 111, 111, 84>>
    /\ res.err = "Wrong magic"

-----------------------------------------------------------------------------
(* C2: the framing check of TKey.read *)

DecodedTKey == res.op = "TKey.read"

\* the offset reached after the header fields and the three strings, walked
\* over the buffer without any check: [ok, offset]
KeyWalk ==
    LET h1 == unpack_from(TKey_header1, buffer, start)
        h2 == unpack_from(IF h1.val["fVersion"] < 1000 THEN TKey_header2_small
                          ELSE TKey_header2_big, buffer, h1.offset)
        s1 == readstring(buffer, h2.offset)
        s2 == readstring(buffer, s1.offset)
        s3 == readstring(buffer, s2.offset)
    IN IF h1.ok /\ h2.ok /\ s1.ok /\ s2.ok /\ s3.ok
       THEN [ok |-> TRUE, offset |-> s3.offset, keylen |-> h1.val["fKeylen"]]
       ELSE [ok |-> FALSE, offset |-> start, keylen |-> 0]

\* C2: TKey.read started at offset start returns successfully only if the
\* offset reached after the header fields and the three strings equals
\* start + fKeylen, and then returns that offset; if the stored fKeylen
\* differs from the bytes consumed by any amount, it raises the framing error
\* and returns no offset.
C2_KeyFraming ==
    DecodedTKey =>
        /\ res.err = "none" =>
              /\ KeyWalk.ok
              /\ KeyWalk.offset = start + KeyWalk.keylen
              /\ res.ret = <<start + KeyWalk.keylen>>
        /\ (KeyWalk.ok /\ KeyWalk.offset - start # KeyWalk.keylen) =>
              /\ res.err = KeyFramingError
              /\ res.ret = << >>

\* a key whose fKeylen is one more than the bytes consumed was refused
C2_Witness ==
    /\ DecodedTKey
    /\ KeyWalk.ok
    /\ KeyWalk.keylen = KeyWalk.offset - start + 1
    /\ res.err = KeyFramingError
    /\ res.ret = << >>

-----------------------------------------------------------------------------
(* C3, C5: the key directory *)

DecodedKeyList == res.op = "TKeyList.read" /\ res.err = "none"
LookedUp == DecodedKeyList /\ answer.op = "TKeyList.__getitem__"

\* the key records the read decoded after the head key
DecodedKeys == {res.data.parsed[i] : i \in 1..Len(res.data.parsed)}
KeysNamed(name) == {k \in DecodedKeys : k["fName"] = name}
GreatestCycle(name) ==
    CHOOSE c \in {k["fCycle"] : k \in KeysNamed(name)} :
        \A k \in KeysNamed(name) : k["fCycle"] <= c

\* C3: after a successful TKeyList.read, for every plain name that occurs in
\* a decoded key, __getitem__(name) returns the key of that name with the
\* greatest cycle among the decoded keys of that name, whatever the order
\* and the cycle values; and __getitem__("name;cycle") returns the key with
\* exactly that name and cycle.
C3_LatestCycle ==
    LookedUp =>
        /\ KeysNamed(query) # {} =>
              /\ answer.err = "none"
              /\ answer.key["fName"] = query
              /\ answer.key["fCycle"] = GreatestCycle(query)
        /\ \A k \in DecodedKeys :
              query = namecycle(k["fName"], k["fCycle"]) =>
                  /\ answer.err = "none"
                  /\ answer.key["fName"] = k["fName"]
                  /\ answer.key["fCycle"] = k["fCycle"]

\* C5: whenever TKeyList.read returns successfully, the number of key
\* records it parsed after the head key equals the declared count nKeys.
C5_ParsedEqualsDeclared ==
    DecodedKeyList => Len(res.data.parsed) = res.data.data["nKeys"]

-----------------------------------------------------------------------------
(* C4: a fetch of an unknown name *)

\* name matches no decoded key, neither as "name;cycle" nor as a plain name
Unknown(name) ==
    \A i \in 1..Len(keyslist.parsed) :
        /\ name # keyslist.parsed[i]["fName"]
        /\ name # namecycle(keyslist.parsed[i]["fName"], keyslist.parsed[i]["fCycle"])

\* C4: ROOTFile.__getitem__ for a name that matches no decoded key fails with
\* a lookup error: it returns no object, issues no byte-range read and leaves
\* the key directory unchanged.
C4_UnknownNameFails ==
    [][ (pc \in {"new", "open"} /\ pc' # "fileheader" /\ Unknown(request'))
          => /\ obj' = [op |-> GetItemOp, err |-> "KeyError: key", key |-> EmptyDict]
             /\ reads' = reads
             /\ keyslist' = keyslist
             /\ pc' = pc /\ job' = job ]_vars

\* on an open file with three decoded keys, after a fetch that did read a
\* payload, a fetch of the unknown name "TFile" failed with the lookup error
C4_Witness ==
    /\ pc = "open"
    /\ Len(keyslist.parsed) = 3
    /\ ObjectReads >= 1
    /\ request = Str_TFile /\ Unknown(request)
    /\ obj.op = GetItemOp /\ obj.err = "KeyError: key"

-----------------------------------------------------------------------------
(* C6: the seek test of ROOTFile.open *)

\* the root key record was decoded
RootKeyDecoded == "fTitle" \in DOMAIN rootkey /\ err # KeyFramingError

KeysReadIssued == \E i \in 1..Len(reads) : reads[i].why = "keys"

\* C6: if the decoded root key's fSeekKey differs from the header's fBEGIN,
\* open aborts with a fatal error before the directory record is decoded and
\* before the key-list read is issued; if they are equal this check never
\* aborts.
C6_SeekMismatchIsFatal ==
    RootKeyDecoded =>
        IF rootkey["fSeekKey"] # fileheader["fBEGIN"]
        THEN /\ pc = "failed" /\ err = RootDirError
             /\ rootdir = EmptyDict
             /\ ~KeysReadIssued
        ELSE err # RootDirError

\* a root key that points one byte past fBEGIN made open fail
C6_Witness ==
    /\ RootKeyDecoded
    /\ rootkey["fSeekKey"] = fileheader["fBEGIN"] + 1
    /\ pc = "failed" /\ err = RootDirError

-----------------------------------------------------------------------------
(* C7, C8, C9: the growth reads of ROOTFile.open *)

GrowthReads == {"grow_rootkey", "grow_rootdir"}

\* C7: every growth read issued by open, the one before the root key and the
\* one before the directory record, requests a size that is at least the
\* shortfall and never less than the read step.
C7_GrowthAtLeastStep ==
    \A i \in 1..Len(reads) :
        reads[i].why \in GrowthReads =>
            /\ reads[i].size >= reads[i].need
            /\ reads[i].size >= step

\* C8: insufficient readahead never aborts open: for every well-formed file
\* served in full by every read, and every position of the root key
\* relative to the end of the first read, open never fails.
C8_ReadaheadNeverAborts ==
    (file \in WellFormedFiles /\ servelimit = Len(file)) => pc # "failed"

\* the records of a file decoded from its complete bytes
RefHeader == TFile_read(EmptyDict, file, 0)
RefRootKey == TKey_read(EmptyDict, file, RefHeader.ret[1])
RefRootDir == TDirectory_read(EmptyDict, file, RefRootKey.ret[1])
RefKeyList ==
    TKeyList_read(TKeyList_init,
                  Slice(file, RefRootDir.data["fSeekKeys"],
                        RefRootDir.data["fSeekKeys"] + RefRootDir.data["fNbytesKeys"]),
                  0)

\* open has ended and no fetch has changed the key directory since
OpenEnded == pc \in {"open", "failed"} /\ ObjectReads = 0

\* the least number of reads that cover a shortfall when a read returns at
\* most servelimit bytes
MinimalReads(need) == (need + servelimit - 1) \div servelimit

\* C9: for a byte source that returns at most N bytes per read, open yields
\* the same fully parsed header, root key, directory and key directory for
\* every read step, and the number of additional reads it issues (one per
\* shortfall) equals the least number needed to cover each shortfall.
C9_SameParseEveryStep ==
    (file \in WellFormedFiles /\ OpenEnded) =>
        /\ pc = "open"
        /\ fileheader = RefHeader.data
        /\ rootkey = RefRootKey.data
        /\ rootdir = RefRootDir.data
        /\ keyslist = RefKeyList.data
        /\ \A i \in 1..Len(reads) :
              reads[i].why \in GrowthReads => MinimalReads(reads[i].need) = 1

-----------------------------------------------------------------------------
(* C10: the checksum of an LZ4 payload *)

\* the checksum field as it stands in the payload
WireChecksum ==
    SubSeq(buffer, calcsize(CompressionHeader_header.fmt) + 1,
           calcsize(CompressionHeader_header.fmt) + calcsize(CompressionHeader_l4header.fmt))

\* the returned function was called on a payload tagged "L4" and returned
CalledL4 ==
    /\ res.op = "CompressionHeader.read" /\ res.err = "none"
    /\ res.data["magic"] = Str_L4
    /\ job.state = "done" /\ job.result.err = "none"

\* C10: for a payload tagged "L4", the function returned by
\* CompressionHeader.decompressor returns decompressed bytes only when their
\* 64-bit hash equals the header's checksum field; otherwise it raises the
\* checksum-mismatch error.
C10_ChecksumEnforced ==
    CalledL4 => xxh64(job.result.out) = WireChecksum


-----------------------------------------------------------------------------
(* Compression.decompressor on codec tags *)

\* the greatest numeric codec tag tried
MaxTag == 8

\* the bytes the 2-byte magics tried are made of
MagicBytes == {90, 76, 88, 52, 83, 67, 0, 255}

CodecTags ==
    {PyInt(n) : n \in 0..MaxTag} \cup {PyBytes(<<a, b>>) : a \in MagicBytes, b \in MagicBytes}

InitCodec ==
    /\ buffer \in CodecTags
    /\ start = 0 /\ res = NotRun /\ query = << >> /\ answer = NoAnswer
    /\ FileIdle /\ AsyncIdle

\* Compression.decompressor(fCompress)
GetCodec ==
    /\ res = NotRun
    /\ res' = Ran("Compression.decompressor", Compression_decompressor(buffer))
    /\ UNCHANGED <<buffer, start, query, answer>>
    /\ UNCHANGED <<fileVars, asyncVars>>

NextCodec == GetCodec

SpecCodec == InitCodec /\ [][NextCodec]_vars

-----------------------------------------------------------------------------
(* C11: the errors of Compression.decompressor *)

GotCodec == res.op = "Compression.decompressor"

\* the tag names one of the two codecs that are recognized but not implemented
UnimplementedTag ==
    \/ buffer.t = "int" /\ buffer.v[1] \in {3, 5}
    \/ buffer.t = "bytes" /\ buffer.v = <<90, 83>>

\* the tag names no codec at all
UnknownTag ==
    \/ buffer.t = "int" /\ buffer.v[1] \notin 1..5
    \/ buffer.t = "bytes" /\ buffer.v \notin {<<90, 76>>, <<88, 90>>, <<76, 52>>, <<90, 83>>}

\* C11: Compression.decompressor raises the not-implemented error for each
\* of the two unimplemented codec tags, raises the unsupported-compression
\* error, a different kind, for a wholly unknown tag (numeric or 2-byte
\* magic), and accepts no tag without a decompress function.
C11_CodecErrors ==
    GotCodec =>
        /\ UnimplementedTag => res.err = NotImplementedError
        /\ UnknownTag => res.err = CompressionError
        /\ CompressionError # NotImplementedError
        /\ res.err = "none" => res.codec \in {"zlib", "lzma", "lz4"}


-----------------------------------------------------------------------------
(* TFile.read, TKey.read and TDirectory.read on records of versions around *)
(* the layout thresholds                                                   *)

DecodeTDirectory ==
    /\ res = NotRun
    /\ res' = Ran("TDirectory.read", TDirectory_read(EmptyDict, buffer, start))
    /\ UNCHANGED <<buffer, start, query, answer>>
    /\ UNCHANGED <<fileVars, asyncVars>>

LayoutRecords ==
    {TFileBytes(RootMagic, v, 100) : v \in HeaderVersions}
    \cup {TKeyBytes(MakeKey(v, 1, 100, 300, 200, strs, 0))
            : v \in {BigKeyVersion - 1, BigKeyVersion, 4, BigKeyVersion + 4},
              strs \in { <<WriteString(Str_TTree), WriteString(Str_Events), WriteString(Str_title)>>,
                         <<WriteString(Str_TFile), WriteString(Str_h1), WriteString(<< >>)>> }}
    \cup {DirBytes(v, 100, 700, 160)
            : v \in {BigDirectoryVersion - 1, BigDirectoryVersion, 5, BigDirectoryVersion + 5}}

LayoutInputs == {SubSeq(r, 1, Len(r) - cut) : r \in LayoutRecords, cut \in 0..MaxCut}

InitLayout ==
    /\ buffer \in LayoutInputs
    /\ start = 0 /\ res = NotRun /\ query = << >> /\ answer = NoAnswer
    /\ FileIdle /\ AsyncIdle

NextLayout == DecodeTFile \/ DecodeTKey \/ DecodeTDirectory

SpecLayout == InitLayout /\ [][NextLayout]_vars

-----------------------------------------------------------------------------
(* C12: the layout a version selects *)

\* the signed big-endian integer in the n bytes of the buffer from offset at
FieldAt(at, n) == IntBE(SubSeq(buffer, at + 1, at + n), TRUE)

\* the offset of the first header of a directory record: after its two strings
DirHeaderAt == readstring(buffer, readstring(buffer, start).offset).offset

\* the decoded class name of a key is the short string that starts at offset at
ClassNameAt(at) ==
    ("fClassName" \in DOMAIN res.data /\ at < Len(buffer) /\ buffer[at + 1] < 255) =>
        res.data["fClassName"] = Slice(buffer, at + 1, at + 1 + buffer[at + 1])

\* C12: TFile.read uses the 32-bit second header iff fVersion < 1,000,000
\* and the 64-bit one otherwise; TKey.read and TDirectory.read use 32-bit
\* seek fields iff their fVersion < 1000 and 64-bit ones otherwise.
C12_LayoutAtThreshold ==
    /\ (res.op = "TFile.read" /\ res.err = "none") =>
          IF FieldAt(start + 4, 4) < 1000000
          THEN /\ res.data["fEND"] = FieldAt(start + 12, 4)
               /\ res.data["fSeekFree"] = FieldAt(start + 16, 4)
               /\ res.data["fUUID"] = SubSeq(buffer, start + 46, start + 63)
          ELSE /\ res.data["fEND"] = FieldAt(start + 12, 8)
               /\ res.data["fSeekFree"] = FieldAt(start + 20, 8)
               /\ res.data["fUUID"] = SubSeq(buffer, start + 58, start + 75)
    /\ (res.op = "TKey.read" /\ "fSeekKey" \in DOMAIN res.data) =>
          IF FieldAt(start + 4, 2) < 1000
          THEN /\ res.data["fSeekKey"] = FieldAt(start + 18, 4)
               /\ res.data["fSeekPdir"] = FieldAt(start + 22, 4)
               /\ ClassNameAt(start + 26)
          ELSE /\ res.data["fSeekKey"] = FieldAt(start + 18, 8)
               /\ res.data["fSeekPdir"] = FieldAt(start + 26, 8)
               /\ ClassNameAt(start + 34)
    /\ (res.op = "TDirectory.read" /\ res.err = "none") =>
          IF FieldAt(DirHeaderAt, 2) < 1000
          THEN /\ res.data["fSeekDir"] = FieldAt(DirHeaderAt + 18, 4)
               /\ res.data["fSeekKeys"] = FieldAt(DirHeaderAt + 26, 4)
               /\ res.ret[1] = DirHeaderAt + 30
          ELSE /\ res.data["fSeekDir"] = FieldAt(DirHeaderAt + 18, 8)
               /\ res.data["fSeekKeys"] = FieldAt(DirHeaderAt + 34, 8)
               /\ res.ret[1] = DirHeaderAt + 42

\* a file header whose version is exactly the threshold was decoded whole,
\* and its 64-bit fEND differs from what the 32-bit layout would have read
C12_Witness ==
    /\ res.op = "TFile.read" /\ res.err = "none"
    /\ res.data["fVersion"] = 1000000
    /\ res.data["fEND"] = FieldAt(start + 12, 8)
    /\ res.data["fEND"] # FieldAt(start + 12, 4)

\* a key and a directory one version below the threshold were decoded whole
C12_KeyBelowThreshold ==
    /\ res.op = "TKey.read" /\ res.err = "none" /\ res.data["fVersion"] = 999
C12_DirectoryAtThreshold ==
    /\ res.op = "TDirectory.read" /\ res.err = "none" /\ res.data["fVersion"] = 1000


-----------------------------------------------------------------------------
(* The streamed records, decoded from sections whose size field declares   *)
(* an end before, at or after the end of their fields                      *)

\* the classes derived from TStreamed, and TStreamed itself
StreamedClasses == {"TStreamed", "TObject", "TNamed", "TAttLine", "TTree"}

\* cls().read(buffer, offset) for a streamed class
Streamed_read(cls, buf, off) ==
    CASE cls = "TObject" -> TObject_read(cls, TStreamed_init, buf, off)
      [] cls = "TTree" -> TTree_read(TStreamed_init, buf, off)
      [] OTHER -> Super_read(cls, buf, off)

\* 0x20000000, the bit below the byte-count flag
NextBit == kByteCountMask \div 2

\* the high bits of a size field
SizeFlags == {0, kByteCountMask, NextBit, kByteCountMask + NextBit}

\* the record with its size field rewritten: the flags, and the length skewed
Resized(rec, flags, skew) ==
    PackBE(flags + Len(rec) - 4 + skew, 4) \o SubSeq(rec, 5, Len(rec))

StreamedRecords ==
    [TStreamed |-> {Envelope(2, <<0, 0, 0, 0>>)},
     TObject |-> {Envelope(1, pack(TObject_header1.fmt, <<1, 0, 0>>))},
     TNamed |-> {TNamedBytes(Str_Events, Str_title), TNamedBytes(Str_h1, << >>)},
     TAttLine |-> {Envelope(v, pack(TAttLine_header1.fmt, <<1, 1, 1>>))
                     : v \in {TAttLineVersion, TAttLineVersion + 1}},
     TTree |-> {SubSeq(t, 1, Len(t) - cut)
                  : t \in {TTreeBytes(Str_Events, v, 3) : v \in {TTreeVersion, TTreeVersion - 1}},
                    cut \in {0, Len(TreeTail)}}]

InitStreamed ==
    /\ query \in StreamedClasses
    /\ buffer \in {Resized(rec, flags, skew)
                     : rec \in StreamedRecords[query], flags \in SizeFlags,
                       skew \in (0 - MaxSkew)..MaxSkew}
    /\ start = 0 /\ res = NotRun /\ answer = NoAnswer
    /\ FileIdle /\ AsyncIdle

DecodeStreamed ==
    /\ res = NotRun
    /\ res' = Ran("read", Streamed_read(query, buffer, start))
    /\ UNCHANGED <<buffer, start, query, answer>>
    /\ UNCHANGED <<fileVars, asyncVars>>

NextStreamed == DecodeStreamed

SpecStreamed == InitStreamed /\ [][NextStreamed]_vars

-----------------------------------------------------------------------------
(* C13: a derived streamed record validates its consumed length *)

DerivedRead == res.op = "read" /\ query # "TStreamed"

\* the end the section's size field declares, once the envelope was accepted
DeclaredEnd == res.data.end[1]

\* C13: every successful decode of a derived streamed record (TObject,
\* TNamed, TAttLine, TTree) consumed exactly up to its envelope's declared
\* end; a decode that stops short of it fails with the under-read error and
\* one that passes it with the distinct over-read error.
C13_DerivedDecodeChecksEnd ==
    /\ UnderReadError # OverReadError
    /\ (DerivedRead /\ res.err = "none") => res.ret[1] = DeclaredEnd
    /\ (DerivedRead /\ res.err = UnderReadError) => DeclaredEnd > start + 6
    /\ (DerivedRead /\ res.err = OverReadError) => DeclaredEnd < Len(buffer)

\* the same for the three records that call check() on themselves
C13_ExactClassesCheckEnd ==
    (DerivedRead /\ query # "TTree" /\ res.err = "none") => res.ret[1] = DeclaredEnd

\* a tree was decoded whole although its envelope ends elsewhere
C13_TreeUnchecked ==
    /\ res.op = "read" /\ query = "TTree" /\ res.err = "none"
    /\ res.ret[1] # DeclaredEnd


-----------------------------------------------------------------------------
(* XRootDFile.read and its completion callback.  The transport library      *)
(* calls _handle on a thread of its own; the event loop runs the awaiting   *)
(* tasks and the callbacks handed to call_soon_threadsafe, one at a time.   *)
(* futures[i], waiters[i] and calls[i] belong to the i-th read issued.      *)

\* the reads issued in one behaviour
MaxReads == 2

\* the contents a completed read delivers
XrdContents == {<<1, 2>>, << >>}

InvalidStateError == "InvalidStateError"
IOError == "IOError"

\* loop.create_future()
PendingFuture == [state |-> "pending", result |-> << >>, exception |-> "none"]

\* a future that takes a result in whatever state it is
Future_set_result_Unguarded(fut, value) ==
    [err |-> "none",
     fut |-> [state |-> "finished", result |-> <<value>>, exception |-> "none"]]

\* future.set_result(content), run by the loop: a future that is no longer
\* pending raises and is left as it is
Future_set_result(fut, value) ==
    IF fut.state # "pending" THEN [err |-> InvalidStateError, fut |-> fut]
    ELSE [err |-> "none",
          fut |-> [state |-> "finished", result |-> <<value>>, exception |-> "none"]]

\* future.set_exception(exc), run by the loop
Future_set_exception(fut, exc) ==
    IF fut.state # "pending" THEN [err |-> InvalidStateError, fut |-> fut]
    ELSE [err |-> "none",
          fut |-> [state |-> "finished", result |-> << >>, exception |-> exc]]

\* the transport's side of a read that has no callback outstanding
NoCall == [pc |-> "none", ok |-> FALSE, content |-> << >>]

\* XRootDFile.read(offset, size) up to its await: accepted is res['ok']
Xrd_Read(accepted) ==
    /\ Len(futures) < MaxReads
    /\ futures' = Append(futures, PendingFuture)
    /\ waiters' = Append(waiters, IF accepted THEN "awaiting" ELSE IOError)
    /\ calls' = Append(calls, IF accepted THEN [NoCall EXCEPT !.pc = "flying"] ELSE NoCall)
    /\ UNCHANGED <<ready, servers, loopfails>>
    /\ UNCHANGED <<harnessVars, fileVars, poolVars>>

\* the task awaiting the i-th read is cancelled, which cancels its future
Xrd_Cancel(i) ==
    /\ waiters[i] = "awaiting" /\ futures[i].state = "pending"
    /\ futures' = [futures EXCEPT ![i].state = "cancelled"]
    /\ waiters' = [waiters EXCEPT ![i] = "cancelled"]
    /\ UNCHANGED <<calls, ready, servers, loopfails>>
    /\ UNCHANGED <<harnessVars, fileVars, poolVars>>

\* _handle(future, status, content, servers), on the transport's thread:
\* if future.cancelled(): return
Xrd_HandleCheck(i, ok, content) ==
    /\ calls[i].pc = "flying"
    /\ calls' = [calls EXCEPT ![i] = IF futures[i].state = "cancelled"
                                     THEN [@ EXCEPT !.pc = "dropped"]
                                     ELSE [pc |-> "checked", ok |-> ok, content |-> content]]
    /\ UNCHANGED <<futures, waiters, ready, servers, loopfails>>
    /\ UNCHANGED <<harnessVars, fileVars, poolVars>>

\* _handle, the rest: the completion is handed to the loop
Xrd_HandlePost(i) ==
    /\ calls[i].pc = "checked"
    /\ calls' = [calls EXCEPT ![i].pc = "posted"]
    /\ IF calls[i].ok
       THEN /\ servers' = servers + 1
            /\ ready' = Append(ready, [fn |-> "set_result", fut |-> i, arg |-> calls[i].content])
       ELSE /\ ready' = Append(ready, [fn |-> "set_exception", fut |-> i, arg |-> << >>])
            /\ UNCHANGED servers
    /\ UNCHANGED <<futures, waiters, loopfails>>
    /\ UNCHANGED <<harnessVars, fileVars, poolVars>>

\* the loop runs the next callback handed to it; one that raises is reported
\* to the loop's exception handler
Xrd_LoopRun ==
    /\ ready # << >>
    /\ LET cb == Head(ready)
           Ran_(r) ==
               /\ futures' = [futures EXCEPT ![cb.fut] = r.fut]
               /\ loopfails' = IF r.err = "none" THEN loopfails
                               ELSE Append(loopfails, [fut |-> cb.fut, err |-> r.err])
       IN Ran_(IF cb.fn = "set_result" THEN Future_set_result(futures[cb.fut], cb.arg)
               ELSE Future_set_exception(futures[cb.fut], IOError))
    /\ ready' = Tail(ready)
    /\ UNCHANGED <<waiters, calls, servers>>
    /\ UNCHANGED <<harnessVars, fileVars, poolVars>>

\* return await future: the task resumes with the result or the exception
Xrd_Resume(i) ==
    /\ waiters[i] = "awaiting" /\ futures[i].state = "finished"
    /\ waiters' = [waiters EXCEPT ![i] = IF futures[i].exception # "none"
                                         THEN futures[i].exception ELSE "returned"]
    /\ UNCHANGED <<futures, calls, ready, servers, loopfails>>
    /\ UNCHANGED <<harnessVars, fileVars, poolVars>>

InitXrd == HarnessIdle /\ FileIdle /\ AsyncIdle

NextXrd ==
    \/ \E accepted \in BOOLEAN : Xrd_Read(accepted)
    \/ \E i \in DOMAIN futures : Xrd_Cancel(i)
    \/ \E i \in DOMAIN futures, ok \in BOOLEAN, content \in XrdContents :
           Xrd_HandleCheck(i, ok, content)
    \/ \E i \in DOMAIN futures : Xrd_HandlePost(i)
    \/ Xrd_LoopRun
    \/ \E i \in DOMAIN futures : Xrd_Resume(i)

SpecXrd == InitXrd /\ [][NextXrd]_vars

-----------------------------------------------------------------------------
(* C14: a cancelled read's future is never completed *)

-----------------------------------------------------------------------------
(* Concurrent fetches.  The event loop runs open, close and the steps of    *)
(* each __getitem__ task between its awaits; the functions handed to        *)
(* run_in_executor run on the threads of an executor.  fetches[t] is the    *)
(* t-th fetch: pc its position, key the key it resolved to, bytes its       *)
(* payload, job the function it submitted (ctx: the context that runs it),  *)
(* during whether its read completion was processed while a decompression   *)
(* was running.                                                             *)

\* the fetches started in one behaviour
MaxTasks == 2

AttributeError == "AttributeError"

PoolFiles == {FileBytes(100, big, 0) : big \in BOOLEAN}
PoolRequests == {Str_Events, Str_h1, Str_h1_1, Str_TFile}

\* a function run inline by the caller, on the loop's thread
RunInPool_Inline(pool) == "loop"

\* loop.run_in_executor(self._threadpool, fun, *args): the executor that
\* runs fun; None selects the loop's default executor
RunInPool(pool) == IF pool = "None" THEN "default" ELSE pool

\* self._ownpool is not None
OwnPool == threadpool # "given"

Fetch(at, key, bytes, failure) ==
    [pc |-> at, key |-> key, bytes |-> bytes, job |-> NoJob, err |-> failure,
     during |-> FALSE]

JobRunning(t) == fetches[t].job.state = "running"

\* the loop's thread is inside a function it was made to run itself
LoopBusy == \E t \in DOMAIN fetches : JobRunning(t) /\ fetches[t].job.ctx = "loop"

InitPool ==
    /\ file \in PoolFiles
    /\ servelimit = Len(file)
    /\ step = DefaultReadStep
    /\ ROOTFile_init
    /\ HarnessIdle
    /\ futures = << >> /\ waiters = << >> /\ calls = << >> /\ ready = << >>
    /\ servers = 0 /\ loopfails = << >>
    /\ threadpool \in {"None", "given"}
    /\ fetches = << >>

\* ROOTFile.open, on a well-formed file, as one step of the loop
Pool_Open ==
    /\ pc = "new" /\ ~LoopBusy
    /\ threadpool' = IF OwnPool THEN "own" ELSE threadpool
    /\ fileheader' = RefHeader.data
    /\ rootkey' = RefRootKey.data
    /\ rootdir' = RefRootDir.data
    /\ keyslist' = RefKeyList.data
    /\ pc' = "open"
    /\ UNCHANGED <<file, servelimit, step, headbytes, offset, err, reads, warned, more,
                   keysbytes, request, objkey, objbytes, obj, job, fetches>>
    /\ UNCHANGED <<harnessVars, xrdVars>>

\* ROOTFile.close
Pool_Close ==
    /\ pc = "open" /\ ~LoopBusy
    /\ threadpool' = IF OwnPool THEN "None" ELSE threadpool
    /\ pc' = "closed"
    /\ UNCHANGED <<file, servelimit, step, headbytes, offset, fileheader, rootkey, rootdir,
                   keyslist, err, reads, warned, more, keysbytes, request, objkey, objbytes,
                   obj, job, fetches>>
    /\ UNCHANGED <<harnessVars, xrdVars>>

PoolFrame ==
    /\ UNCHANGED <<file, servelimit, step, pc, headbytes, offset, fileheader, rootkey,
                   rootdir, keyslist, err, reads, warned, more, keysbytes, request, objkey,
                   objbytes, obj, job, threadpool>>
    /\ UNCHANGED <<harnessVars, xrdVars>>

\* __getitem__(name) up to its first await: the lookup, the class, the read
\* issued; a byte source that is not open has no loop to create a future on
Fetch_Start(name) ==
    /\ Len(fetches) < MaxTasks /\ ~LoopBusy
    /\ LET found == TKeyList_getitem(keyslist, name)
       IN fetches' = Append(fetches,
              IF found.err # "none" THEN Fetch("failed", EmptyDict, << >>, "KeyError: key")
              ELSE IF found.key["fClassName"] \notin ClassMap
                   THEN Fetch("failed", found.key, << >>, "KeyError: class")
              ELSE IF pc # "open" THEN Fetch("failed", found.key, << >>, AttributeError)
              ELSE Fetch("reading", found.key, << >>, "none"))
    /\ PoolFrame

\* obj.read(objbytes); return obj
Fetch_Decode(f, payload) ==
    LET Decoded(r) ==
            IF r.err # "none" THEN [f EXCEPT !.pc = "failed", !.err = r.err, !.bytes = payload]
            ELSE [f EXCEPT !.pc = "done", !.bytes = payload]
    IN Decoded(Class_read(f.key["fClassName"], payload))

\* the function is handed to the executor, and the task awaits it
Fetch_Submit(f, payload, fn, at) ==
    [f EXCEPT !.pc = "decompressing", !.bytes = payload,
              !.job = [state |-> "queued", ctx |-> RunInPool(threadpool), fn |-> fn,
                       bytes |-> Slice(payload, at, Len(payload))]]

\* the loop can process the completion of the t-th fetch's read
CanProcessRead(t) == fetches[t].pc = "reading" /\ ~LoopBusy

\* the read of the t-th fetch completes and its task runs up to the next
\* await: the key's compressed flag decides between decoding the payload
\* and handing its decompression to the pool
Fetch_ReadDone(t) ==
    /\ CanProcessRead(t)
    /\ LET f == [fetches[t] EXCEPT !.during = \E u \in DOMAIN fetches : JobRunning(u)]
           payload == SourceRead(f.key["fSeekKey"] + f.key["fKeylen"],
                                 f.key["fNbytes"] - f.key["fKeylen"])
           Compressed_(ch, dec) ==
               IF ch.err # "none" THEN [f EXCEPT !.pc = "failed", !.err = ch.err]
               ELSE IF dec.err # "none" THEN [f EXCEPT !.pc = "failed", !.err = dec.err]
               ELSE Fetch_Submit(f, payload, dec.fn, ch.ret[1])
           Header(ch) == Compressed_(ch, CompressionHeader_decompressor(ch.data))
       IN fetches' = [fetches EXCEPT ![t] =
              IF TKey_compressed(f.key)
              THEN Header(CompressionHeader_read(EmptyDict, payload, 0))
              ELSE Fetch_Decode(f, payload)]
    /\ PoolFrame

\* a thread of the executor takes the function; the orchestrator's own pool
\* has one worker, and the loop's thread runs one thing at a time
Worker_Start(t) ==
    /\ fetches[t].job.state = "queued"
    /\ fetches[t].job.ctx \in {"own", "loop"} =>
          ~\E u \in DOMAIN fetches : JobRunning(u) /\ fetches[u].job.ctx = fetches[t].job.ctx
    /\ fetches' = [fetches EXCEPT ![t].job.state = "running"]
    /\ PoolFrame

\* the function returns on the executor's thread
Worker_Finish(t) ==
    /\ JobRunning(t)
    /\ fetches' = [fetches EXCEPT ![t].job =
                      [state |-> "done", ctx |-> @.ctx,
                       result |-> CallDecompressor(@.fn, @.bytes)]]
    /\ PoolFrame

\* the task resumes with the decompressed bytes, or with the exception
Fetch_Decompressed(t) ==
    /\ fetches[t].pc = "decompressing" /\ fetches[t].job.state = "done" /\ ~LoopBusy
    /\ LET f == fetches[t]
       IN fetches' = [fetches EXCEPT ![t] =
              IF f.job.result.err # "none"
              THEN [f EXCEPT !.pc = "failed", !.err = f.job.result.err]
              ELSE Fetch_Decode(f, f.job.result.out)]
    /\ PoolFrame

NextPool ==
    \/ Pool_Open
    \/ Pool_Close
    \/ \E name \in PoolRequests : Fetch_Start(name)
    \/ \E t \in DOMAIN fetches : Fetch_ReadDone(t)
    \/ \E t \in DOMAIN fetches : Worker_Start(t)
    \/ \E t \in DOMAIN fetches : Worker_Finish(t)
    \/ \E t \in DOMAIN fetches : Fetch_Decompressed(t)

SpecPool == InitPool /\ [][NextPool]_vars


-----------------------------------------------------------------------------
(* C15: decompression runs in the pool, and only for compressed keys *)

HasJob(t) == fetches[t].job.state # "none"

\* C15: in ROOTFile.__getitem__ decompression is performed iff the key is
\* marked compressed (a fetch of a compressed key never decodes its payload
\* without it, a fetch of another key never submits one); whenever it is
\* performed it runs on an executor's thread (the caller's pool, the
\* orchestrator's own pool, or the loop's default executor when
\* _threadpool is None), never on the loop's thread, so that the read
\* completion of another fetch can be processed while it is running; before
\* open, after open and after close.
C15_DecompressionInPool ==
    \A t \in DOMAIN fetches :
        /\ HasJob(t) => /\ TKey_compressed(fetches[t].key)
                        /\ fetches[t].job.ctx \in {"own", "given", "default"}
                        /\ fetches[t].job.ctx = "given" <=> threadpool = "given"
        /\ fetches[t].pc \in {"done", "decompressing"} =>
              (HasJob(t) <=> TKey_compressed(fetches[t].key))
        /\ JobRunning(t) =>
              \A u \in DOMAIN fetches :
                  fetches[u].pc = "reading" => CanProcessRead(u)

\* while one fetch's decompression is still running on a worker of the
\* pool, the read completion of the other fetch was processed
C15_Witness ==
    \E t, u \in DOMAIN fetches :
        /\ t # u /\ JobRunning(t) /\ fetches[t].job.ctx \in {"own", "given"}
        /\ fetches[u].during /\ fetches[u].pc # "reading"

\* a decompression ran on the default executor: the pool was None at the time
C15_DefaultExecutor ==
    \E t \in DOMAIN fetches : HasJob(t) /\ fetches[t].job.ctx = "default"

\* a fetch of a compressed key returned its object
C15_CompressedFetched ==
    \E t \in DOMAIN fetches : fetches[t].pc = "done" /\ HasJob(t)


-----------------------------------------------------------------------------
(* Every decoder on every buffer of a mixed set, from two offsets *)

\* TString.readstring(buffer, offset) as a decode outcome
ReadString ==
    /\ res = NotRun
    /\ LET Outcome(r) == IF r.ok THEN Return(r.offset, [string |-> r.string])
                         ELSE Raise(StructError, EmptyDict)
       IN res' = Ran("TString.readstring", Outcome(readstring(buffer, start)))
    /\ UNCHANGED <<buffer, start, query, answer>>
    /\ UNCHANGED <<fileVars, asyncVars>>

\* NamedStruct.unpack_from(buffer, offset), for the first header of a key
UnpackStruct ==
    /\ res = NotRun
    /\ LET Outcome(r) == IF r.ok THEN Return(r.offset, r.val)
                         ELSE Raise(StructError, EmptyDict)
       IN res' = Ran("NamedStruct.unpack_from", Outcome(unpack_from(TKey_header1, buffer, start)))
    /\ UNCHANGED <<buffer, start, query, answer>>
    /\ UNCHANGED <<fileVars, asyncVars>>

\* CompressionHeader().read(buffer, offset)
ReadCompressionHeaderAt ==
    /\ res = NotRun
    /\ res' = Ran("CompressionHeader.read", CompressionHeader_read(EmptyDict, buffer, start))
    /\ UNCHANGED <<buffer, start, query, answer>>
    /\ UNCHANGED <<fileVars, asyncVars>>

\* an extended string length of -16
NegativeLength == <<255>> \o PackBE(0 - 16, 4)

\* the buffers each decoder is tried on (unsigned 32-bit fields stay below
\* 2^31, within the integers TLC computes with)
OffsetBuffers ==
    [c \in StreamedClasses |-> StreamedRecords[c]] @@
    [NamedStruct |-> {TKeyBytes(MakeKey(4, 1, 100, 300, 200, strs, 0)) : strs \in KeyStrings},
     TString |-> { WriteString(Str_h1), WriteString(Zeros(255)), NegativeLength,
                   NegativeLength \o WriteString(Str_h1),
                   SubSeq(WriteString(Str_Events), 1, 3) },
     TFile |-> { TFileBytes(RootMagic, 61804, 100), TFileBytes(RootMagic, BigFileVersion, 100),
                 Zeros(80) \o TFileBytes(RootMagic, 61804, 60) },
     TKey |-> {SubSeq(k, 1, Len(k) - cut)
                 : k \in {TKeyBytes(MakeKey(v, 1, 100, 300, 200, strs, 0))
                            : v \in {4, BigKeyVersion + 4}, strs \in KeyStrings},
                   cut \in {0, 1}},
     TKeyList |-> {KeyListBytes(<<EntryKey([name |-> Str_h1, cycle |-> 1]),
                                  EntryKey([name |-> Str_Events, cycle |-> 1])>>, n, t)
                     : n \in 1..3, t \in 0..1},
     TDirectory |-> {DirBytes(v, 100, 700, 160) : v \in {5, BigDirectoryVersion + 5}}
                    \cup {NegativeLength \o DirBytes(5, 100, 700, 160)},
     CompressionHeader |-> { Compressed(Str_L4, <<0>>, << >>, Zeros(8)),
                             Compressed(Str_ZL, <<0>>, << >>, << >>) }]

\* the bytes before the record, and the offset handed to the decoder
OffsetLeads == {0, 1, 2, 3, 80}

InitOffsets ==
    /\ query \in DOMAIN OffsetBuffers
    /\ start \in OffsetLeads
    /\ buffer \in {Zeros(start) \o b : b \in OffsetBuffers[query]}
              \cup (IF start = 80 THEN OffsetBuffers[query] ELSE {})
    /\ res = NotRun /\ answer = NoAnswer
    /\ FileIdle /\ AsyncIdle

NextOffsets ==
    \/ query = "NamedStruct" /\ UnpackStruct
    \/ query = "TString" /\ ReadString
    \/ query = "TFile" /\ DecodeTFile
    \/ query = "TKey" /\ DecodeTKey
    \/ query = "TKeyList" /\ DecodeKeyList
    \/ query = "TDirectory" /\ DecodeTDirectory
    \/ query \in StreamedClasses /\ DecodeStreamed
    \/ query = "CompressionHeader" /\ ReadCompressionHeaderAt

SpecOffsets == InitOffsets /\ [][NextOffsets]_vars

-----------------------------------------------------------------------------
(* C16: offsets only increase *)

\* C16: every decoder (NamedStruct.unpack_from, TString.readstring,
\* TFile.read, TKey.read, TKeyList.read, TDirectory.read, TStreamed.read and
\* its derived records, CompressionHeader.read) returns an offset greater
\* than or equal to the offset it was given, for every input buffer.
C16_OffsetsNeverDecrease ==
    (res.op # "none" /\ res.err = "none") => res.ret[1] >= start

\* it holds of the decoders that only add sizes to the offset
C16_FixedSizeDecoders ==
    (res.op \in {"NamedStruct.unpack_from", "CompressionHeader.read", "read"}
     /\ res.err = "none")
        => res.ret[1] >= start

\* a string with a negative extended length was read, and a file header
\* handed an offset beyond its fBEGIN
C16_StringWentBack ==
    res.op = "TString.readstring" /\ res.err = "none" /\ res.ret[1] < start
C16_HeaderWentBack ==
    res.op = "TFile.read" /\ res.err = "none" /\ res.ret[1] < start


-----------------------------------------------------------------------------
(* C17: the decoded records after open *)

\* open has returned: the file is open, or a fetch on it is under way
Opened == pc \in {"open", "getitem_read", "getitem_payload", "getitem_decompress"}

\* C17: after ROOTFile.open has returned, no later operation on the
\* orchestrator changes the contents of the decoded FileHeader, root
\* KeyRecord, DirectoryRecord, KeyDirectory or any KeyRecord in it.
C17_RecordsFrozenAfterOpen ==
    [][Opened => /\ fileheader' = fileheader
                 /\ rootkey' = rootkey
                 /\ rootdir' = rootdir
                 /\ keyslist' = keyslist]_vars

\* a fetch has stored the object it decoded in the key's own dictionary
C17_KeyHoldsObject ==
    /\ pc = "open"
    /\ \E k \in DOMAIN keyslist.keys : "object" \in DOMAIN keyslist.keys[k]

\* the header, the root key and the directory record do stay as open left them
C17_HeadRecordsFrozen ==
    [][Opened => /\ fileheader' = fileheader
                 /\ rootkey' = rootkey
                 /\ rootdir' = rootdir]_vars


-----------------------------------------------------------------------------
(* C18: truncated and over-long key lists *)

\* the head key of the list in the buffer, decoded on its own
ListHead == TKey_read(EmptyDict, buffer, start)

\* the declared end of the list and its declared count
ListEnd == ListHead.ret[1] + ListHead.data["fObjlen"]
ListDeclared == unpack_from(TKeyList_nKeys, buffer, ListHead.ret[1]).val

\* the number of complete key records the buffer holds from off up to end
RECURSIVE RecordsHeld(_, _)
RecordsHeld(off, end) ==
    LET Next_(k) == IF k.err = "none" /\ k.ret[1] <= end
                    THEN 1 + RecordsHeld(k.ret[1], end) ELSE 0
    IN IF off >= end THEN 0 ELSE Next_(TKey_read(EmptyDict, buffer, off))

ListHeld == RecordsHeld(ListHead.ret[1] + calcsize(TKeyList_nKeys.fmt), ListEnd)

\* C18: TKeyList.read raises whenever the bytes before the declared end hold
\* fewer complete KeyRecords than the declared count, and also whenever they
\* hold more; it never returns successfully having left undecoded KeyRecords
\* in the region before the declared end.
C18_RejectsShortAndLong ==
    res.op = "TKeyList.read" =>
        /\ ListHeld < ListDeclared => res.err # "none"
        /\ ListHeld > ListDeclared => res.err # "none"
        /\ res.err = "none" => Len(res.data.parsed) = ListHeld

\* the truncated half of it
C18_RejectsShort ==
    (res.op = "TKeyList.read" /\ ListHeld < ListDeclared) => res.err # "none"

\* a list holding one record more than declared was read successfully, and
\* the undecoded record was kept as trailing bytes
C18_LongListAccepted ==
    /\ res.op = "TKeyList.read" /\ res.err = "none"
    /\ ListHeld = ListDeclared + 1
    /\ Len(res.data.parsed) = ListDeclared
    /\ "trailings" \in DOMAIN res.data.data


-----------------------------------------------------------------------------
(* C19: the size field of a streamed section *)

\* the unsigned value of the 4-byte size field the decoder was handed
SizeField == IntBE(SubSeq(buffer, start + 1, start + 4), FALSE)

\* bit 31 of the size field is clear
TopBitClear == buffer[start + 1] < 128

\* bit 30 (0x40000000) of the size field is clear
FlagBitClear == (buffer[start + 1] \div 64) % 2 = 0

\* the size field without bit 30
RemainingBits == SizeField - 1073741824

\* TStreamed.read went past its test of the size field
SizeAccepted == res.op = "read" /\ res.data.end # << >>

\* C19 as stated: TStreamed.read raises the unsupported-streamer error iff
\* the top bit of the 32-bit leading size field is clear.
C19_TopBitDecides ==
    res.op = "read" => (res.err = StreamerVersionError <=> TopBitClear)

\* C19, amended: TStreamed.read raises the unsupported-streamer error iff
\* bit 30 (mask 0x40000000) of the 32-bit leading size field is clear;
\* otherwise the stored section length equals the value of the remaining
\* bits of that field, and the computed end equals (offset just after the
\* 4-byte size field) + that length.
C19_FlagBitDecides ==
    res.op = "read" =>
        /\ res.err = StreamerVersionError <=> FlagBitClear
        /\ ~FlagBitClear =>
              /\ SizeAccepted
              /\ res.data.data["fSize"] = RemainingBits
              /\ res.data.end[1] = start + 4 + RemainingBits
              /\ (query = "TStreamed" /\ res.err = "none") => res.ret[1] = res.data.end[1]

\* a section whose size field has bit 30 set and bit 31 clear was accepted,
\* with bit 29 counted in its length
C19_Witness ==
    /\ res.op = "read" /\ query = "TStreamed" /\ res.err = "none"
    /\ TopBitClear /\ ~FlagBitClear
    /\ RemainingBits >= 536870912
    /\ res.ret[1] = start + 4 + RemainingBits


-----------------------------------------------------------------------------
(* C20: the checksum field of the compression header *)

\* C20: CompressionHeader.read decodes an 8-byte checksum immediately after
\* the 9-byte fixed header exactly when the codec tag is "L4": for that tag
\* the record holds a checksum field and the returned offset is start + 17;
\* for every other tag no checksum is read and the returned offset is
\* start + 9.
C20_ChecksumReadForL4 ==
    (res.op = "CompressionHeader.read" /\ res.err = "none") =>
        IF res.data["magic"] = Str_L4
        THEN /\ "checksum" \in DOMAIN res.data
             /\ res.ret[1] = start + 17
        ELSE /\ "checksum" \notin DOMAIN res.data
             /\ res.ret[1] = start + 9

\* the other tags: no checksum, offset start + 9
C20_NoChecksumForOthers ==
    (res.op = "CompressionHeader.read" /\ res.err = "none" /\ res.data["magic"] # Str_L4) =>
        /\ "checksum" \notin DOMAIN res.data
        /\ res.ret[1] = start + 9

\* a header tagged "L4" was read without its checksum
C20_L4WithoutChecksum ==
    /\ res.op = "CompressionHeader.read" /\ res.err = "none"
    /\ res.data["magic"] = Str_L4
    /\ "checksum" \notin DOMAIN res.data
    /\ res.ret[1] = start + 9


-----------------------------------------------------------------------------
(* C21: the head buffer of open *)

HeadReads == {"head"} \cup GrowthReads

\* the length of the head buffer when the i-th read was issued: the bytes
\* the earlier reads into it returned
RECURSIVE HeadLengthBefore(_)
HeadLengthBefore(i) ==
    IF i <= 1 THEN 0
    ELSE HeadLengthBefore(i - 1)
         + (IF reads[i - 1].why \in HeadReads THEN reads[i - 1].got ELSE 0)

\* byte i of the head buffer is byte i of the file
HeadIsFilePrefix ==
    /\ Len(headbytes) <= Len(file)
    /\ headbytes = SubSeq(file, 1, Len(headbytes))

\* every growth read starts where the buffer ended
GrowthStartsAtEnd ==
    \A i \in 1..Len(reads) :
        reads[i].why \in GrowthReads => reads[i].at = HeadLengthBefore(i)

\* a step keeps the bytes of the buffer at their indices
HeadOnlyAppended ==
    /\ Len(headbytes') >= Len(headbytes)
    /\ SubSeq(headbytes', 1, Len(headbytes)) = headbytes

\* C21: during ROOTFile.open the head buffer only grows by appending: each
\* growth read starts at the file offset equal to the current buffer length,
\* the bytes already in the buffer are unchanged at the same indices, and at
\* every step byte i of the buffer is byte i of the file.
C21_HeadGrowsByAppending ==
    /\ [](HeadIsFilePrefix /\ GrowthStartsAtEnd)
    /\ [][HeadOnlyAppended]_vars

\* open ended after a growth read that added bytes behind a cursor that had
\* already moved into the buffer
C21_Witness ==
    /\ pc = "open"
    /\ \E i \in 1..Len(reads) :
          /\ reads[i].why \in GrowthReads /\ reads[i].got > 0 /\ reads[i].at > 0
    /\ HeadIsFilePrefix


-----------------------------------------------------------------------------
(* C22: what a failed decode leaves in the record *)

\* the errors raised on a violated invariant
InvariantErrors ==
    {"Wrong magic", KeyFramingError, KeyCountError, AttLineVersionError, TreeVersionError}

\* the record as it was made, before the decode
FreshRecord ==
    CASE res.op \in {"TFile.read", "TKey.read"} -> EmptyDict
      [] res.op = "TKeyList.read" -> TKeyList_init
      [] OTHER -> TStreamed_init

\* C22: a decode that raises on an invariant violation (wrong magic in
\* TFile.read, framing mismatch in TKey.read, key-count mismatch in
\* TKeyList.read, unsupported version in TAttLine.read or TTree.read) leaves
\* no partially decoded record: after the failure the record's field map
\* holds none of the fields decoded during that call.
C22_FailureLeavesNoFields ==
    (res.op \in {"TFile.read", "TKey.read", "TKeyList.read", "read"}
     /\ res.err \in InvariantErrors)
        => res.data = FreshRecord

\* a header with a wrong magic left its three first fields in the record
C22_WrongMagicLeavesFields ==
    /\ res.op = "TFile.read" /\ res.err = "Wrong magic"
    /\ DOMAIN res.data = {"magic", "fVersion", "fBEGIN"}

\* a key with a framing mismatch left all its fields in the record
C22_FramingLeavesFields ==
    /\ res.op = "TKey.read" /\ res.err = KeyFramingError
    /\ {"fKeylen", "fSeekKey", "fClassName", "fName", "fTitle"} \subseteq DOMAIN res.data

\* a tree of an unknown version left its envelope and predecessors
C22_TreeVersionLeavesFields ==
    /\ res.op = "read" /\ res.err = TreeVersionError
    /\ {"fSize", "fVersion", "TNamed", "TAttLine"} \subseteq DOMAIN res.data.data


-----------------------------------------------------------------------------
(* C23: the length of a decoded string *)

\* the size of the length prefix at offset at, and the length it declares
PrefixSize(at) == IF buffer[at + 1] = 255 THEN 5 ELSE 1
DeclaredLength(at) ==
    IF buffer[at + 1] = 255 THEN IntBE(SubSeq(buffer, at + 2, at + 5), TRUE)
    ELSE buffer[at + 1]

\* C23: TString.readstring returns a byte string whose length equals the
\* declared length (the 1-byte prefix, or the 4-byte extended length when
\* the prefix is 255) and an offset advanced by exactly the prefix size plus
\* that length; consequently a KeyRecord whose strings extend past the end
\* of the buffer is never decoded successfully with a shortened class name,
\* name or title.
C23_StringHasDeclaredLength ==
    /\ (res.op = "TString.readstring" /\ res.err = "none") =>
          /\ Len(res.data["string"]) = DeclaredLength(start)
          /\ res.ret[1] = start + PrefixSize(start) + DeclaredLength(start)
    /\ (res.op = "TKey.read" /\ res.err = "none") => res.ret[1] <= Len(buffer)

\* the offset does advance by the prefix and the declared length
C23_OffsetAdvancesByDeclared ==
    (res.op = "TString.readstring" /\ res.err = "none") =>
        res.ret[1] = start + PrefixSize(start) + DeclaredLength(start)

\* a string declared longer than the bytes left came back shortened
C23_StringShortened ==
    /\ res.op = "TString.readstring" /\ res.err = "none"
    /\ DeclaredLength(start) > 0
    /\ Len(res.data["string"]) < DeclaredLength(start)

\* a key whose title lies past the end of the buffer was decoded
\* successfully with an empty title
C23_KeyShortened ==
    /\ res.op = "TKey.read" /\ res.err = "none"
    /\ res.ret[1] > Len(buffer)
    /\ res.data["fTitle"] = << >>


-----------------------------------------------------------------------------
(* C24: the completion scheduled by _handle and the state of its future *)

\* C24: under every interleaving of the transport's thread and the event
\* loop, the completion that _handle schedules (set_result or set_exception)
\* is never applied to a future that is already cancelled or already
\* completed at the moment it runs: each future is completed at most once,
\* and a cancellation between the cancelled-check and the scheduled
\* completion raises no error in the loop.
C24_CompletionFindsPendingFuture ==
    /\ [](loopfails = << >>)
    /\ [][(ready # << >> /\ ready' = Tail(ready))
             => futures[Head(ready).fut].state = "pending"]_vars

\* no future is completed twice: a completed future is left as it is
C24_CompletedAtMostOnce ==
    [][\A i \in DOMAIN futures :
          futures[i].state = "finished" => futures'[i] = futures[i]]_vars

\* the loop ran set_result on a future cancelled after _handle had tested it
C24_LateCompletionRaised ==
    \E k \in DOMAIN loopfails :
        /\ loopfails[k].err = InvalidStateError
        /\ futures[loopfails[k].fut].state = "cancelled"
        /\ calls[loopfails[k].fut].pc = "posted"

====
